---- MODULE Spec2Model ----
(***************************************************************************)
(* Local/remote reconciliation layer of the Dreambox data service          *)
(* (services/mockData.ts): in-memory collections mirrored to localStorage, *)
(* the deletion queue, fire-and-forget remote writes, triggerFullSync with *)
(* its per-table smartSyncTable passes, and the listener registry.         *)
(* Two collections stand for the eight that are synchronised: billboards,  *)
(* whose handlers all have the same shape, and users, which the merge and  *)
(* deleteUser treat specially.  The audit log, the cloud mirror and the    *)
(* toasts the handlers also touch are left out: they read the collections  *)
(* and write only keys of their own.                                       *)
(***************************************************************************)
EXTENDS Integers, Sequences, FiniteSets, TLC

VARIABLES
    cache,          \* [Tables -> Seq(Rec)]: billboards, users, ... (module-level arrays)
    stored,         \* [Tables -> serialized array]: localStorage under STORAGE_KEYS.*
    deletedQueue,   \* Seq(DeletedItem): the in-memory deletion queue
    storedQueue,    \* serialized queue under STORAGE_KEYS.DELETED_QUEUE
    restoreStr,     \* string under STORAGE_KEYS.RESTORE_TIMESTAMP (<<>> = absent)
    remote,         \* [Tables -> Seq(Rec)]: rows held by the remote store
    delCalls,       \* remote delete calls of deleteFromSupabase still in flight
    upCalls,        \* remote upsert calls of syncToSupabase still in flight
    runs,           \* [RunIds -> state of one triggerFullSync invocation]
    now,            \* Date.now(), ms after the model's epoch
    opsLeft,        \* user operations still allowed (bounds the exploration)
    syncsLeft,      \* triggerFullSync calls still allowed; negative = no limit
    last,           \* what the step just taken did (a pass, a mutation, or nothing)
    listeners,      \* Seq(Listener): the Set of listeners in insertion order
    calls,          \* listeners invoked by the last notifyListeners, in order
    thrown,         \* TRUE iff the last notifyListeners let an exception escape
    pull,           \* state of the pullAllDataFromSupabase call, and supabaseSyncComplete
    events,         \* storage events of other tabs' writes not yet handled by this tab
    aux,            \* recreatable keys present in localStorage (logs, backup, mirror)
    contracts,      \* Seq(Contract): the contracts array
    boards,         \* [billboard id -> type and rental fields of that billboard]
    getters         \* calls of the async getters (getBillboardsAsync, ...) in flight

vars == <<cache, stored, deletedQueue, storedQueue, restoreStr, remote, delCalls,
          upCalls, runs, now, opsLeft, syncsLeft, last, listeners, calls, thrown,
          pull, events, aux, contracts, boards, getters>>

extVars == <<pull, events, aux, contracts, boards, getters>>

notifyVars == <<listeners, calls, thrown>>

(***************************************************************************)
(* Bounds of the exploration and constants of the program.                 *)
(***************************************************************************)
MaxOps == 2
MaxSyncs == 1
MaxLen == 2
MaxTicks == 2
MaxListeners == 3
MaxPulls == 1

NewLocalWindow == 600000
RestoreWindow == 300000
StaticIdLength == 10
TsPartLength == 10

Tick == RestoreWindow
Base == 4 * Tick

Tables == {"billboards", "users"}
RunIds == {1, 2}

(***************************************************************************)
(* Record ids.  An id string is kept as the list of its '-'-separated      *)
(* parts; a part records its text tag, its length in characters, whether   *)
(* Number(part) is a number, and that number (ms after the epoch).         *)
(***************************************************************************)
W(txt, len) == [txt |-> txt, len |-> len, num |-> FALSE, val |-> 0]
N(len, val) == [txt |-> "#", len |-> len, num |-> TRUE, val |-> val]

IdA == <<W("a", 1)>>
IdUuid == <<W("x", 8), W("x", 4), W("x", 12)>>
IdDevAdm == <<W("dev", 3), W("admin", 5), N(3, 1)>>
IdOwner == <<W("owner", 5), W("x", 12)>>
IdTs(k) == <<W("billboard", 9), N(13, Base + k * Tick)>>
IdDevTs(k) == <<W("dev", 3), N(13, Base + k * Tick)>>

RECURSIVE SumLen(_)
SumLen(parts) ==
    IF parts = <<>> THEN 0 ELSE Head(parts).len + SumLen(Tail(parts))

\* item.id.length
IdLength(id) == SumLen(id) + (Len(id) - 1)

\* item.id.startsWith(pre + '-')
StartsWith(id, pre) == Len(id) >= 2 /\ id[1].txt = pre

\* parts.find(p => p.length > 10 && !isNaN(Number(p))): index of the part, 0 if none
PotentialTs(id) ==
    LET hits == {i \in DOMAIN id : id[i].len > TsPartLength /\ id[i].num}
    IN  IF hits = {} THEN 0 ELSE CHOOSE i \in hits : \A j \in hits : i <= j

(***************************************************************************)
(* Sequence helpers.                                                       *)
(***************************************************************************)
IdsOf(arr) == {arr[i].id : i \in DOMAIN arr}
HasId(arr, id) == \E i \in DOMAIN arr : arr[i].id = id
Range(s) == {s[i] : i \in DOMAIN s}

\* JSON.stringify / JSON.parse of an array of records
Stringify(arr) == [i \in DOMAIN arr |-> <<arr[i].id, arr[i].v>>]
Parse(str) == [i \in DOMAIN str |-> [id |-> str[i][1], v |-> str[i][2]]]

\* a stored string JSON.parse rejects
CorruptJson == << << <<>>, -1 >> >>

\* what getItem returns for a key the storage does not hold (null)
AbsentKey == << << <<>>, -3 >> >>

\* the value null; the string "null" is its JSON text
NullValue == <<[id |-> <<>>, v |-> -2]>>

\* a loadFromStorage without the null test and the catch block: whatever
\* getItem returned is parsed
LoadFromStorageUnguarded(str, defaultValue) ==
    Parse(str)

\* loadFromStorage(key, defaultValue), str being what getItem returns for the key
LoadFromStorage(str, defaultValue) ==
    IF str = AbsentKey THEN defaultValue
    ELSE IF str = CorruptJson THEN defaultValue
    ELSE Parse(str)

\* loadFromStorage has its whole body in try/catch: nothing leaves it
LoadThrows(str) ==
    FALSE

\* Date.now().toString() and parseInt(...)
RECURSIVE Digits(_)
Digits(n) == IF n < 10 THEN <<n>> ELSE Append(Digits(n \div 10), n % 10)

RECURSIVE ParseInt(_)
ParseInt(ds) ==
    IF ds = <<>> THEN 0 ELSE ParseInt(SubSeq(ds, 1, Len(ds) - 1)) * 10 + ds[Len(ds)]

(***************************************************************************)
(* localStorage writes.  setItem either succeeds, throws a quota error     *)
(* (then the cleanup runs and the write is retried once), or throws some   *)
(* other error (no retry).                                                 *)
(***************************************************************************)
Outcomes == {"ok", "quota_retry_ok", "quota_retry_fail", "other_error"}

Written(outcome) == outcome \in {"ok", "quota_retry_ok"}

\* saveToStorage whose catch block does not write again after the cleanup
SaveToStorageNoRetry(old, data, outcome) ==
    IF outcome = "ok" THEN Stringify(data) ELSE old

\* saveToStorage(key, data): the value under key afterwards, old being the value before
SaveToStorage(old, data, outcome) ==
    IF outcome = "ok" THEN Stringify(data)
    ELSE IF outcome = "quota_retry_ok" THEN Stringify(data)
    ELSE old

\* the queue is stored as the JSON of its items
StringifyQueue(q) == [i \in DOMAIN q |-> <<q[i].table, q[i].id, q[i].timestamp>>]
ParseQueue(str) ==
    [i \in DOMAIN str |-> [table |-> str[i][1], id |-> str[i][2], timestamp |-> str[i][3]]]

SaveQueue(old, q, outcome) ==
    IF outcome = "ok" THEN StringifyQueue(q)
    ELSE IF outcome = "quota_retry_ok" THEN StringifyQueue(q)
    ELSE old

\* the keys saveToStorage removes when a write hits the quota (db_logs,
\* db_auto_backup_data, db_cloud_mirror_data), and the other keys beside the
\* collections (db_logo stands for them)
Recreatable == {"logs", "auto_backup", "cloud_mirror"}
AuxKeys == Recreatable \cup {"logo"}

\* the auxiliary keys saveToStorage is called on
SavedAuxKeys == {"logs", "auto_backup", "logo"}

\* the first setItem threw an error that passes the quota test
QuotaError(outcome) == outcome \in {"quota_retry_ok", "quota_retry_fail"}

\* a cleanup that spares the audit log
CleanupKeepsLogs(keys, outcome) ==
    IF QuotaError(outcome) THEN keys \ {"auto_backup", "cloud_mirror"} ELSE keys

\* the auxiliary keys present after saveToStorage, keys being those before
Cleanup(keys, outcome) ==
    IF QuotaError(outcome) THEN keys \ Recreatable ELSE keys

\* the number of setItem calls saveToStorage makes
SetItemCalls(outcome) == IF QuotaError(outcome) THEN 2 ELSE 1

\* a saveToStorage whose retry is not guarded: its failure leaves the function
SaveThrowsOnFailedRetry(outcome) == outcome = "quota_retry_fail"

\* saveToStorage catches the error of the first write and of the retry
SaveThrows(outcome) ==
    FALSE

(***************************************************************************)
(* The remote store: one row per id and table.                             *)
(***************************************************************************)
RemoteUpsert(rows, rec) ==
    IF HasId(rows, rec.id)
    THEN [i \in DOMAIN rows |-> IF rows[i].id = rec.id THEN rec ELSE rows[i]]
    ELSE Append(rows, rec)

\* arr.filter(x => x.id !== id)
FilterOut(arr, id) ==
    LET Keep(r) == r.id # id IN SelectSeq(arr, Keep)

RemoteDelete(rows, id) == FilterOut(rows, id)

(***************************************************************************)
(* smartSyncTable, after the fetch has returned remoteData.                *)
(***************************************************************************)
InQueue(q, tableName, id) ==
    \E i \in DOMAIN q : q[i].table = tableName /\ q[i].id = id

PendingDeleteIds(q, tableName) ==
    {q[i].id : i \in {j \in DOMAIN q : q[j].table = tableName}}

\* isRecentRestore reading a key nothing writes: getItem returns null
IsRecentRestoreWrongKey(str, nowv) ==
    LET restoreTime == 0
    IN  (nowv - restoreTime) < RestoreWindow

\* isRecentRestore, from the stored restore timestamp
IsRecentRestore(str, nowv) ==
    LET restoreTime == IF str # <<>> THEN ParseInt(str) ELSE 0
    IN  (nowv - restoreTime) < RestoreWindow

\* isNewLocal without the timestamp test: ids are judged by their shape only
IsNewLocalNoTimestamp(tableName, id, nowv, isRecentRestore) ==
    \/ IdLength(id) < StaticIdLength
    \/ StartsWith(id, "dev")
    \/ StartsWith(id, "owner")
    \/ isRecentRestore
    \/ tableName = "users"

\* isNewLocal without the window: any embedded timestamp makes the row new
IsNewLocalAnyTimestamp(tableName, id, nowv, isRecentRestore) ==
    \/ PotentialTs(id) # 0
    \/ IdLength(id) < StaticIdLength
    \/ StartsWith(id, "dev")
    \/ StartsWith(id, "owner")
    \/ isRecentRestore
    \/ tableName = "users"

\* the value of isNewLocal when the loop body reaches "if (isNewLocal)"
IsNewLocal(tableName, id, nowv, isRecentRestore) ==
    LET p == PotentialTs(id)
        byId == IF p # 0
                THEN nowv - id[p].val < NewLocalWindow
                ELSE \/ IdLength(id) < StaticIdLength
                     \/ StartsWith(id, "dev")
                     \/ StartsWith(id, "owner")
    IN  byId \/ isRecentRestore \/ tableName = "users"

MergedBase(remoteData, pending) ==
    LET Keep(d) == d.id \notin pending IN SelectSeq(remoteData, Keep)

LocalOnly(localData, remoteData) ==
    LET Missing(l) == l.id \notin IdsOf(remoteData) IN SelectSeq(localData, Missing)

\* the local-only items the loop pushes onto mergedData (and upserts)
Pushed(tableName, localData, remoteData, pending, nowv, isRecentRestore) ==
    LET mergedMap == IdsOf(MergedBase(remoteData, pending))
        Take(item) == /\ item.id \notin pending
                      /\ IsNewLocal(tableName, item.id, nowv, isRecentRestore)
                      /\ item.id \notin mergedMap
    IN  SelectSeq(LocalOnly(localData, remoteData), Take)

\* a merge in which a row present on both sides keeps its local record
MergedDataLocalWins(tableName, localData, remoteData, pending, nowv, isRecentRestore) ==
    LET base == MergedBase(remoteData, pending)
        Mine(d) == IF HasId(localData, d.id)
                   THEN CHOOSE l \in Range(localData) : l.id = d.id
                   ELSE d
    IN  [i \in DOMAIN base |-> Mine(base[i])]
            \o Pushed(tableName, localData, remoteData, pending, nowv, isRecentRestore)

MergedData(tableName, localData, remoteData, pending, nowv, isRecentRestore) ==
    MergedBase(remoteData, pending)
        \o Pushed(tableName, localData, remoteData, pending, nowv, isRecentRestore)

(***************************************************************************)
(* Listeners.  listeners.forEach(listener => listener()) visits the Set in *)
(* insertion order; an exception thrown by a listener leaves forEach.      *)
(***************************************************************************)
FirstThrower(ls) ==
    LET bad == {i \in DOMAIN ls : ls[i].throws}
    IN  IF bad = {} THEN 0 ELSE CHOOSE i \in bad : \A j \in bad : i <= j

\* the listeners notifyListeners invokes, in order
Invoked(ls) ==
    IF FirstThrower(ls) = 0 THEN [i \in DOMAIN ls |-> ls[i].id]
    ELSE [i \in 1..FirstThrower(ls) |-> ls[i].id]

NotifyThrows(ls) == FirstThrower(ls) # 0

(***************************************************************************)
(* State of one triggerFullSync invocation and the log of the last step.   *)
(***************************************************************************)
Rec(id, v) == [id |-> id, v |-> v]

NoPass == [st |-> "none", localData |-> <<>>, remoteData |-> <<>>, failed |-> FALSE]

IdleRun ==
    [pc |-> "idle", live |-> FALSE, arr |-> <<>>, idx |-> 0, remaining |-> <<>>,
     okd |-> {}, recent |-> FALSE, startAt |-> 0, restoreSeen |-> <<>>, hasChanges |-> FALSE, changed |-> FALSE, pass |-> [t \in Tables |-> NoPass]]

NoLast ==
    [kind |-> "none", t |-> "", id |-> <<>>, written |-> {}, unwritten |-> {},
     localData |-> <<>>, remoteData |-> <<>>, pending |-> {}, merged |-> <<>>,
     upserts |-> <<>>, applied |-> FALSE, recent |-> FALSE, at |-> 0,
     startAt |-> 0, restoreSeen |-> <<>>,
     wasQueued |-> FALSE, confirmed |-> {}, failed |-> FALSE, current |-> <<>>,
     notified |-> FALSE, changed |-> FALSE,
     key |-> "", outcome |-> "", attempts |-> 0, removed |-> {}, data |-> <<>>,
     got |-> <<>>, snaps |-> <<>>, before |-> <<>>, beforeStored |-> <<>>]

Pair(table, id) == [table |-> table, id |-> id]

\* no pullAllDataFromSupabase call in progress; synced is supabaseSyncComplete
IdlePull ==
    [pc |-> "idle", idx |-> 0, snap |-> <<>>, synced |-> FALSE, left |-> 0,
     got |-> [t \in Tables |-> "none"], snaps |-> [t \in Tables |-> <<>>],
     before |-> <<>>, beforeStored |-> <<>>, written |-> {}]

\* the (table, id) pairs a queue holds
QueuePairs(q) == {Pair(q[i].table, q[i].id) : i \in DOMAIN q}

\* the array a flush loop iterates: the queue itself until the variable is reassigned
FlushArr(r) == IF runs[r].live THEN deletedQueue ELSE runs[r].arr

\* deletedQueue = <new array>: loops iterating the old array keep the old array
Detach(rn, oldQueue) ==
    IF rn.pc = "flush" /\ rn.live
    THEN [rn EXCEPT !.live = FALSE, !.arr = oldQueue]
    ELSE rn

\* the synchronous part of the eight smartSyncTable calls, up to their fetch
StartPasses(rn) ==
    [rn EXCEPT !.pc = "tables", !.live = FALSE, !.arr = <<>>, !.idx = 0,
               !.remaining = <<>>, !.okd = {},
               !.recent = IsRecentRestore(restoreStr, now),
               !.startAt = now, !.restoreSeen = restoreStr,
               !.pass = [t \in Tables |->
                            [st |-> "fetching", localData |-> cache[t],
                             remoteData |-> <<>>, failed |-> FALSE]]]

(***************************************************************************)
(* Initial state: a fresh install with the remote store configured.        *)
(***************************************************************************)
Init ==
    /\ cache = [t \in Tables |-> <<>>]
    /\ stored = [t \in Tables |-> <<>>]
    /\ deletedQueue = <<>>
    /\ storedQueue = <<>>
    /\ restoreStr = <<>>
    /\ remote = [t \in Tables |-> <<>>]
    /\ delCalls = {}
    /\ upCalls = {}
    /\ runs = [r \in RunIds |-> IdleRun]
    /\ now = Base
    /\ opsLeft = MaxOps
    /\ syncsLeft = MaxSyncs
    /\ last = NoLast
    /\ listeners = <<>>
    /\ calls = <<>>
    /\ thrown = FALSE
    /\ pull = IdlePull
    /\ events = {}
    /\ aux = {}
    /\ contracts = <<>>
    /\ boards = <<>>
    /\ getters = {}

(***************************************************************************)
(* triggerFullSync.                                                        *)
(***************************************************************************)
\* a triggerFullSync that returns at once while another invocation is running
TriggerFullSyncLocked(r) ==
    /\ runs[r].pc = "idle"
    /\ \A r2 \in RunIds : r2 < r => runs[r2].pc # "idle"
    /\ \A r2 \in RunIds : runs[r2].pc = "idle"
    /\ syncsLeft # 0
    /\ syncsLeft' = IF syncsLeft > 0 THEN syncsLeft - 1 ELSE syncsLeft
    /\ runs' = [runs EXCEPT ![r] =
                  IF deletedQueue = <<>>
                  THEN StartPasses(IdleRun)
                  ELSE [IdleRun EXCEPT !.pc = "flush", !.live = TRUE, !.idx = 1]]
    /\ last' = NoLast
    /\ UNCHANGED <<cache, stored, deletedQueue, storedQueue, restoreStr, remote,
                   delCalls, upCalls, now, opsLeft, notifyVars>>
    /\ UNCHANGED extVars

\* an invocation takes the first free run id; nothing else is asked of the
\* other invocations: Layout calls triggerFullSync from a timer and on focus
TriggerFullSync(r) ==
    /\ runs[r].pc = "idle"
    /\ \A r2 \in RunIds : r2 < r => runs[r2].pc # "idle"
    /\ syncsLeft # 0
    /\ syncsLeft' = IF syncsLeft > 0 THEN syncsLeft - 1 ELSE syncsLeft
    /\ runs' = [runs EXCEPT ![r] =
                  IF deletedQueue = <<>>
                  THEN StartPasses(IdleRun)
                  ELSE [IdleRun EXCEPT !.pc = "flush", !.live = TRUE, !.idx = 1]]
    /\ last' = NoLast
    /\ UNCHANGED <<cache, stored, deletedQueue, storedQueue, restoreStr, remote,
                   delCalls, upCalls, now, opsLeft, notifyVars>>
    /\ UNCHANGED extVars

\* one iteration of "for (const item of deletedQueue)": the remote delete settles
FlushStep(r, ok, o) ==
    /\ runs[r].pc = "flush"
    /\ LET arr == FlushArr(r)
           item == arr[runs[r].idx]
           remaining == IF ok THEN runs[r].remaining
                        ELSE Append(runs[r].remaining, item)
           okd == IF ok THEN runs[r].okd \cup {Pair(item.table, item.id)}
                  ELSE runs[r].okd
           more == runs[r].idx + 1 <= Len(arr)
           changed == Len(deletedQueue) # Len(remaining)
       IN  /\ remote' = IF ok
                        THEN [remote EXCEPT ![item.table] = RemoteDelete(@, item.id)]
                        ELSE remote
           /\ IF more
              THEN /\ runs' = [runs EXCEPT ![r].idx = @ + 1,
                                           ![r].remaining = remaining]
                   /\ UNCHANGED <<deletedQueue, storedQueue, thrown>>
                   /\ last' = NoLast
              ELSE /\ deletedQueue' = IF changed THEN remaining ELSE deletedQueue
                   /\ thrown' = (thrown \/ (changed /\ SaveThrows(o)))
                   /\ storedQueue' = IF changed
                                     THEN SaveQueue(storedQueue, remaining, o)
                                     ELSE storedQueue
                   /\ runs' = [r2 \in RunIds |->
                                 IF r2 = r THEN StartPasses(runs[r])
                                 ELSE IF changed THEN Detach(runs[r2], deletedQueue)
                                 ELSE runs[r2]]
                   /\ last' = [NoLast EXCEPT !.kind = "flush_end", !.confirmed = okd]
    /\ UNCHANGED <<cache, stored, restoreStr, delCalls, upCalls, now, opsLeft, syncsLeft,
                   listeners, calls>>
    /\ UNCHANGED extVars

\* smartSyncTable going on with an empty remoteData after a failed select
RemoteSelectKeepsGoing(r, t, ok) ==
    /\ runs[r].pc = "tables"
    /\ runs[r].pass[t].st = "fetching"
    /\ runs' = [runs EXCEPT ![r].pass[t] =
                  IF ok THEN [@ EXCEPT !.st = "fetched", !.remoteData = remote[t]]
                  ELSE [@ EXCEPT !.st = "fetched", !.failed = TRUE]]
    /\ last' = IF ok THEN NoLast
               ELSE [NoLast EXCEPT !.kind = "fetch_failed", !.t = t, !.failed = TRUE]
    /\ UNCHANGED <<cache, stored, deletedQueue, storedQueue, restoreStr, remote,
                   delCalls, upCalls, now, opsLeft, syncsLeft, notifyVars>>
    /\ UNCHANGED extVars

\* a fetch whose failure rejects the whole Promise.all: the other passes of the
\* run end with it
RemoteSelectRejectsAll(r, t, ok) ==
    /\ runs[r].pc = "tables"
    /\ runs[r].pass[t].st = "fetching"
    /\ runs' = IF ok
               THEN [runs EXCEPT ![r].pass[t] =
                        [@ EXCEPT !.st = "fetched", !.remoteData = remote[t]]]
               ELSE [runs EXCEPT ![r].pass =
                        [u \in Tables |->
                            IF u = t THEN [@[u] EXCEPT !.st = "done", !.failed = TRUE]
                            ELSE [NoPass EXCEPT !.st = "done"]]]
    /\ last' = IF ok THEN NoLast
               ELSE [NoLast EXCEPT !.kind = "fetch_failed", !.t = t, !.failed = TRUE]
    /\ UNCHANGED <<cache, stored, deletedQueue, storedQueue, restoreStr, remote,
                   delCalls, upCalls, now, opsLeft, syncsLeft, notifyVars>>
    /\ UNCHANGED extVars

\* supabase.from(tableName).select('*') settles; ok is FALSE when it returns an
\* error, returns no data, or throws: the pass returns at once
RemoteSelect(r, t, ok) ==
    /\ runs[r].pc = "tables"
    /\ runs[r].pass[t].st = "fetching"
    /\ runs' = [runs EXCEPT ![r].pass[t] =
                  IF ok THEN [@ EXCEPT !.st = "fetched", !.remoteData = remote[t]]
                  ELSE [@ EXCEPT !.st = "done", !.failed = TRUE]]
    /\ last' = IF ok THEN NoLast
               ELSE [NoLast EXCEPT !.kind = "fetch_failed", !.t = t, !.failed = TRUE]
    /\ UNCHANGED <<cache, stored, deletedQueue, storedQueue, restoreStr, remote,
                   delCalls, upCalls, now, opsLeft, syncsLeft, notifyVars>>
    /\ UNCHANGED extVars

\* smartSyncTable resumes after the fetch: steps B, C and D
PassApply(r, t, o) ==
    /\ runs[r].pc = "tables"
    /\ runs[r].pass[t].st = "fetched"
    /\ LET localData == runs[r].pass[t].localData
           remoteData == runs[r].pass[t].remoteData
           pending == PendingDeleteIds(deletedQueue, t)
           pushed == Pushed(t, localData, remoteData, pending, now, runs[r].recent)
           merged == MergedData(t, localData, remoteData, pending, now, runs[r].recent)
           differs == Stringify(localData) # Stringify(merged)
       IN  /\ cache' = IF differs THEN [cache EXCEPT ![t] = merged] ELSE cache
           /\ stored' = IF differs
                        THEN [stored EXCEPT ![t] = SaveToStorage(@, merged, o)]
                        ELSE stored
           /\ upCalls' = upCalls \cup {[table |-> t, rec |-> pushed[i]] : i \in DOMAIN pushed}
           /\ runs' = [runs EXCEPT ![r].pass[t] =
                                       [NoPass EXCEPT !.st = "done",
                                                      !.failed = runs[r].pass[t].failed],
                                   ![r].hasChanges = @ \/ differs,
                                   ![r].changed = @ \/ (differs /\ merged # cache[t])]
           /\ last' = [NoLast EXCEPT
                         !.kind = "pass", !.t = t,
                         !.written = IF differs /\ Written(o) THEN {t} ELSE {},
                         !.unwritten = IF differs /\ ~Written(o) THEN {t} ELSE {},
                         !.localData = localData, !.remoteData = remoteData,
                         !.pending = pending, !.merged = merged, !.upserts = pushed,
                         !.applied = differs, !.recent = runs[r].recent, !.at = now,
                         !.startAt = runs[r].startAt,
                         !.restoreSeen = runs[r].restoreSeen,
                         !.failed = runs[r].pass[t].failed,
                         !.current = cache[t]]
           /\ aux' = IF differs THEN Cleanup(aux, o) ELSE aux
    /\ UNCHANGED <<deletedQueue, storedQueue, restoreStr, remote, delCalls, now,
                   opsLeft, syncsLeft, listeners, calls, thrown>>
    /\ UNCHANGED <<pull, events,
                   contracts, boards, getters>>

\* after Promise.all: "if (hasChanges) notifyListeners(); return true" inside try/catch
RunFinish(r) ==
    /\ runs[r].pc = "tables"
    /\ \A t \in Tables : runs[r].pass[t].st = "done"
    /\ calls' = IF runs[r].hasChanges THEN Invoked(listeners) ELSE calls
    /\ thrown' = FALSE
    /\ runs' = [runs EXCEPT ![r] = IdleRun]
    /\ last' = [NoLast EXCEPT !.kind = "run_end", !.notified = runs[r].hasChanges,
                              !.changed = runs[r].changed]
    /\ UNCHANGED <<cache, stored, deletedQueue, storedQueue, restoreStr, remote,
                   delCalls, upCalls, now, opsLeft, syncsLeft, listeners>>
    /\ UNCHANGED extVars

(***************************************************************************)
(* Fire-and-forget remote writes settling.                                 *)
(***************************************************************************)
\* a syncToSupabase that puts a failed upsert back in line
UpsertSettlesRetries(c, ok) ==
    /\ c \in upCalls
    /\ upCalls' = IF ok THEN upCalls \ {c} ELSE upCalls
    /\ remote' = IF ok THEN [remote EXCEPT ![c.table] = RemoteUpsert(@, c.rec)]
                 ELSE remote
    /\ last' = IF ok THEN NoLast
               ELSE [NoLast EXCEPT !.kind = "upsert_failed", !.t = c.table,
                                   !.id = c.rec.id, !.data = <<c.rec>>]
    /\ UNCHANGED <<cache, stored, deletedQueue, storedQueue, restoreStr, delCalls,
                   runs, now, opsLeft, syncsLeft, notifyVars>>
    /\ UNCHANGED extVars

\* the remote upsert of syncToSupabase settles; an error is only logged
UpsertSettles(c, ok) ==
    /\ c \in upCalls
    /\ upCalls' = upCalls \ {c}
    /\ remote' = IF ok THEN [remote EXCEPT ![c.table] = RemoteUpsert(@, c.rec)]
                 ELSE remote
    /\ last' = IF ok THEN NoLast
               ELSE [NoLast EXCEPT !.kind = "upsert_failed", !.t = c.table,
                                   !.id = c.rec.id, !.data = <<c.rec>>]
    /\ UNCHANGED <<cache, stored, deletedQueue, storedQueue, restoreStr, delCalls,
                   runs, now, opsLeft, syncsLeft, notifyVars>>
    /\ UNCHANGED extVars

\* the queue without the entry for (table, id)
WithoutEntry(q, table, id) ==
    LET Keep(i) == ~(i.table = table /\ i.id = id) IN SelectSeq(q, Keep)

\* the remote delete of deleteFromSupabase settles; c.cont is FALSE when the page
\* that issued the call has been reloaded since (its continuation never runs)
DeleteSettles(c, ok, o) ==
    /\ c \in delCalls
    /\ delCalls' = delCalls \ {c}
    /\ remote' = IF ok THEN [remote EXCEPT ![c.table] = RemoteDelete(@, c.id)]
                 ELSE remote
    /\ IF ok /\ c.cont
       THEN /\ deletedQueue' = WithoutEntry(deletedQueue, c.table, c.id)
            /\ storedQueue' = SaveQueue(storedQueue, deletedQueue', o)
            /\ runs' = [r \in RunIds |-> Detach(runs[r], deletedQueue)]
       ELSE UNCHANGED <<deletedQueue, storedQueue, runs>>
    /\ last' = [NoLast EXCEPT !.kind = "delete_settled", !.t = c.table, !.id = c.id,
                              !.confirmed = IF ok THEN {Pair(c.table, c.id)} ELSE {}]
    /\ UNCHANGED <<cache, stored, restoreStr, upCalls, now, opsLeft, syncsLeft, notifyVars>>
    /\ UNCHANGED extVars

(***************************************************************************)
(* Mutations of a collection (addBillboard, updateBillboard, deleteBillboard *)
(* and their siblings for the other collections).                          *)
(***************************************************************************)
\* queueForDeletion without its "find" test
QueueForDeletionUnchecked(q, table, id, ts) ==
    Append(q, [table |-> table, id |-> id, timestamp |-> ts])

\* queueForDeletion: the in-memory queue afterwards
QueueForDeletion(q, table, id, ts) ==
    IF ~InQueue(q, table, id)
    THEN Append(q, [table |-> table, id |-> id, timestamp |-> ts])
    ELSE q

NotifyListeners ==
    /\ calls' = Invoked(listeners)
    /\ thrown' = NotifyThrows(listeners)
    /\ UNCHANGED listeners

\* the tail of a handler whose saveToStorage calls are behind it: when one of
\* them threw, the handler ended there and the listeners were not reached
NotifyListenersAfter(threw) ==
    /\ calls' = IF threw THEN calls ELSE Invoked(listeners)
    /\ thrown' = (threw \/ NotifyThrows(listeners))
    /\ UNCHANGED listeners

AddRecord(t, id, o) ==
    /\ opsLeft > 0
    /\ ~HasId(cache[t], id)
    /\ opsLeft' = opsLeft - 1
    /\ cache' = [cache EXCEPT ![t] = Append(@, Rec(id, 0))]
    /\ stored' = [stored EXCEPT ![t] = SaveToStorage(@, cache'[t], o)]
    /\ upCalls' = upCalls \cup {[table |-> t, rec |-> Rec(id, 0)]}
    /\ NotifyListenersAfter(SaveThrows(o))
    /\ last' = [NoLast EXCEPT !.kind = "add", !.t = t, !.id = id,
                              !.written = IF Written(o) THEN {t} ELSE {},
                              !.unwritten = IF Written(o) THEN {} ELSE {t}]
    /\ UNCHANGED <<syncsLeft, deletedQueue, storedQueue, restoreStr, remote, delCalls, runs, now>>
    /\ UNCHANGED extVars

\* the record edited is one the cache shows
UpdateRecord(t, id, o) ==
    /\ opsLeft > 0
    /\ HasId(cache[t], id)
    /\ opsLeft' = opsLeft - 1
    /\ cache' = [cache EXCEPT ![t] =
                    [i \in DOMAIN @ |-> IF @[i].id = id THEN Rec(id, 1) ELSE @[i]]]
    /\ stored' = [stored EXCEPT ![t] = SaveToStorage(@, cache'[t], o)]
    /\ upCalls' = upCalls \cup {[table |-> t, rec |-> Rec(id, 1)]}
    /\ NotifyListenersAfter(SaveThrows(o))
    /\ last' = [NoLast EXCEPT !.kind = "update", !.t = t, !.id = id,
                              !.written = IF Written(o) THEN {t} ELSE {},
                              !.unwritten = IF Written(o) THEN {} ELSE {t}]
    /\ UNCHANGED <<syncsLeft, deletedQueue, storedQueue, restoreStr, remote, delCalls, runs, now>>
    /\ UNCHANGED extVars

\* deleteUser has no "if (target)" guard; the other collections have one
DeleteRecord(t, id, o, oq) ==
    /\ opsLeft > 0
    /\ t = "users" \/ HasId(cache[t], id)
    /\ opsLeft' = opsLeft - 1
    /\ cache' = [cache EXCEPT ![t] = FilterOut(@, id)]
    /\ stored' = [stored EXCEPT ![t] = SaveToStorage(@, cache'[t], o)]
    /\ deletedQueue' = QueueForDeletion(deletedQueue, t, id, now)
    /\ storedQueue' = IF ~InQueue(deletedQueue, t, id)
                      THEN SaveQueue(storedQueue, deletedQueue', oq)
                      ELSE storedQueue
    /\ delCalls' = delCalls \cup {[table |-> t, id |-> id, cont |-> TRUE]}
    /\ NotifyListenersAfter(SaveThrows(o)
                               \/ (~InQueue(deletedQueue, t, id) /\ SaveThrows(oq)))
    /\ last' = [NoLast EXCEPT !.kind = "delete", !.t = t, !.id = id,
                              !.written = IF Written(o) THEN {t} ELSE {},
                              !.unwritten = IF Written(o) THEN {} ELSE {t},
                              !.wasQueued = InQueue(deletedQueue, t, id)]
    /\ UNCHANGED <<syncsLeft, restoreStr, remote, upCalls, runs, now>>
    /\ UNCHANGED extVars

(***************************************************************************)
(* restoreSystemBackup, up to its "await Promise.all(syncPromises)": the   *)
(* collections named by the backup are replaced and saved, the restore     *)
(* timestamp is written, and every record now cached is upserted.          *)
(***************************************************************************)
MainIds == {IdA, IdUuid}

BackupRows == {<<Rec(IdA, 1)>>}

\* a backup: the tables its data names, and their rows
Backups ==
    {b \in [present : SUBSET Tables, rows : [Tables -> BackupRows \cup {<<>>}]] :
        /\ b.present # {}
        /\ \A t \in Tables : t \in b.present <=> b.rows[t] # <<>>}

\* the outcomes of the saves of one restore, per table
RestoreOutcomes == [Tables -> {"ok", "quota_retry_fail"}]

RestoreSystemBackup(b, os) ==
    /\ opsLeft > 0
    /\ opsLeft' = opsLeft - 1
    /\ b.present # {}
    /\ cache' = [t \in Tables |-> IF t \in b.present THEN b.rows[t] ELSE cache[t]]
    /\ stored' = [t \in Tables |->
                    IF t \in b.present
                    THEN SaveToStorage(stored[t], b.rows[t], os[t])
                    ELSE stored[t]]
    /\ restoreStr' = Digits(now)
    /\ upCalls' = upCalls \cup
                  {[table |-> t, rec |-> cache'[t][i]] :
                       <<t, i>> \in {<<t, i>> \in Tables \X (1..MaxLen) :
                                        i \in DOMAIN cache'[t]}}
    /\ calls' = Invoked(listeners)
    /\ thrown' = FALSE
    /\ UNCHANGED listeners
    /\ last' = [NoLast EXCEPT
                  !.kind = "restore",
                  !.written = {t \in b.present : Written(os[t])},
                  !.unwritten = {t \in b.present : ~Written(os[t])},
                  !.at = now]
    /\ UNCHANGED <<syncsLeft, deletedQueue, storedQueue, remote, delCalls, runs, now>>
    /\ UNCHANGED extVars

(***************************************************************************)
(* pullAllDataFromSupabase: the tables are fetched one after the other;    *)
(* each select is awaited, and the setter runs when the answer is back.    *)
(* The ghost fields got, snaps, written, before and beforeStored remember  *)
(* what each fetch returned, which writes went through and what the        *)
(* collections were when the call started.                                 *)
(***************************************************************************)
TableOrder == <<"billboards", "users">>

\* the position after the table at index i: the next select, or the end
PullAdvance(p, i) ==
    IF i < Len(TableOrder) THEN [p EXCEPT !.pc = "fetch", !.idx = i + 1, !.snap = <<>>]
    ELSE [p EXCEPT !.pc = "finish", !.idx = 0, !.snap = <<>>]

PullStart ==
    /\ pull.pc = "idle"
    /\ pull.left > 0
    /\ pull' = [pc |-> "fetch", idx |-> 1, snap |-> <<>>, synced |-> pull.synced,
                left |-> pull.left - 1,
                got |-> [t \in Tables |-> "none"],
                snaps |-> [t \in Tables |-> <<>>],
                before |-> cache, beforeStored |-> stored, written |-> {}]
    /\ last' = [NoLast EXCEPT !.kind = "pull_start"]
    /\ UNCHANGED <<cache, stored, deletedQueue, storedQueue, restoreStr, remote,
                   delCalls, upCalls, runs, now, opsLeft, syncsLeft, notifyVars,
                   events, aux,
                   contracts, boards, getters>>

\* the select of the current table is answered: with the rows, or with an
\* error, no data or an exception ("continue" / catch: on to the next table)
PullFetch(ok) ==
    /\ pull.pc = "fetch"
    /\ LET t == TableOrder[pull.idx]
       IN  /\ pull' = IF ok
                      THEN [pull EXCEPT !.pc = "set", !.snap = remote[t],
                                        !.got[t] = "ok", !.snaps[t] = remote[t]]
                      ELSE [PullAdvance(pull, pull.idx) EXCEPT !.got[t] = "failed"]
           /\ last' = [NoLast EXCEPT !.kind = IF ok THEN "pull_fetch" ELSE "pull_fetch_failed",
                                     !.t = t, !.failed = ~ok]
    /\ UNCHANGED <<cache, stored, deletedQueue, storedQueue, restoreStr, remote,
                   delCalls, upCalls, runs, now, opsLeft, syncsLeft, notifyVars,
                   events, aux,
                   contracts, boards, getters>>

\* a setter that leaves the collection alone when the snapshot is empty
PullSetSkipsEmpty(o) ==
    /\ pull.pc = "set"
    /\ LET t == TableOrder[pull.idx]
           skip == pull.snap = <<>>
       IN  /\ cache' = IF skip THEN cache ELSE [cache EXCEPT ![t] = pull.snap]
           /\ stored' = IF skip THEN stored
                        ELSE [stored EXCEPT ![t] = SaveToStorage(@, pull.snap, o)]
           /\ aux' = Cleanup(aux, o)
           /\ pull' = [PullAdvance(pull, pull.idx) EXCEPT
                         !.written = IF Written(o) THEN @ \cup {t} ELSE @]
           /\ last' = [NoLast EXCEPT !.kind = "pull_set", !.t = t,
                                     !.remoteData = pull.snap, !.current = cache[t],
                                     !.written = IF Written(o) THEN {t} ELSE {},
                                     !.unwritten = IF Written(o) THEN {} ELSE {t}]
    /\ UNCHANGED <<deletedQueue, storedQueue, restoreStr, remote, delCalls, upCalls,
                   runs, now, opsLeft, syncsLeft, notifyVars, events,
                   contracts, boards, getters>>

\* table.setter(data): "X = data; saveToStorage(KEY, data)"
PullSet(o) ==
    /\ pull.pc = "set"
    /\ LET t == TableOrder[pull.idx]
       IN  /\ cache' = [cache EXCEPT ![t] = pull.snap]
           /\ stored' = [stored EXCEPT ![t] = SaveToStorage(@, pull.snap, o)]
           /\ aux' = Cleanup(aux, o)
           /\ pull' = [PullAdvance(pull, pull.idx) EXCEPT
                         !.written = IF Written(o) THEN @ \cup {t} ELSE @]
           /\ last' = [NoLast EXCEPT !.kind = "pull_set", !.t = t,
                                     !.remoteData = pull.snap, !.current = cache[t],
                                     !.written = IF Written(o) THEN {t} ELSE {},
                                     !.unwritten = IF Written(o) THEN {} ELSE {t}]
    /\ UNCHANGED <<deletedQueue, storedQueue, restoreStr, remote, delCalls, upCalls,
                   runs, now, opsLeft, syncsLeft, notifyVars, events,
                   contracts, boards, getters>>

\* "supabaseSyncComplete = true; notifyListeners(); return true", inside the
\* try of the function: a listener's exception ends in "return false"
PullFinish ==
    /\ pull.pc = "finish"
    /\ pull' = [IdlePull EXCEPT !.synced = TRUE, !.left = pull.left]
    /\ calls' = Invoked(listeners)
    /\ thrown' = FALSE
    /\ last' = [NoLast EXCEPT !.kind = "pull_end", !.got = pull.got,
                              !.written = pull.written,
                              !.snaps = pull.snaps, !.before = pull.before,
                              !.beforeStored = pull.beforeStored]
    /\ UNCHANGED <<cache, stored, deletedQueue, storedQueue, restoreStr, remote,
                   delCalls, upCalls, runs, now, opsLeft, syncsLeft, listeners,
                   events, aux,
                   contracts, boards, getters>>

(***************************************************************************)
(* Page reload: the module is evaluated again, the arrays and the queue    *)
(* are read back from localStorage, pending continuations are gone.        *)
(***************************************************************************)
Reload(o) ==
    /\ opsLeft > 0
    /\ opsLeft' = opsLeft - 1
    /\ cache' = [t \in Tables |-> LoadFromStorage(stored[t], <<>>)]
    /\ stored' = [t \in Tables |-> IF stored[t] = CorruptJson
                                    THEN SaveToStorage(stored[t], <<>>, o)
                                    ELSE stored[t]]
    /\ deletedQueue' = ParseQueue(storedQueue)
    /\ runs' = [r \in RunIds |-> IdleRun]
    /\ delCalls' = {[c EXCEPT !.cont = FALSE] : c \in delCalls}
    /\ listeners' = <<>>
    /\ calls' = <<>>
    /\ thrown' = SaveThrows(o)
    /\ last' = [NoLast EXCEPT !.kind = "reload"]
    /\ pull' = [IdlePull EXCEPT !.left = pull.left]
    /\ UNCHANGED <<syncsLeft, storedQueue, restoreStr, remote, upCalls, now>>
    /\ UNCHANGED <<events, aux,
                   contracts, boards, getters>>

\* the string under a collection key is damaged outside the program
CorruptStorage(t) ==
    /\ \A u \in Tables : stored[u] # CorruptJson
    /\ stored' = [stored EXCEPT ![t] = CorruptJson]
    /\ last' = [NoLast EXCEPT !.kind = "corrupt", !.t = t]
    /\ UNCHANGED <<cache, deletedQueue, storedQueue, restoreStr, remote, delCalls,
                   upCalls, runs, now, opsLeft, syncsLeft, notifyVars, extVars>>

\* time passes
ClockTick ==
    /\ now < Base + MaxTicks * Tick
    /\ now' = now + Tick
    /\ last' = NoLast
    /\ UNCHANGED <<cache, stored, deletedQueue, storedQueue, restoreStr, remote,
                   delCalls, upCalls, runs, opsLeft, syncsLeft, notifyVars>>
    /\ UNCHANGED extVars

(***************************************************************************)
(* The listener registry on its own.                                       *)
(***************************************************************************)
ListenerIds == 1..MaxListeners

\* subscribe(listener): Set.add keeps the position of a listener already present
Subscribe(l, throws) ==
    /\ ~HasId(listeners, l)
    /\ listeners' = Append(listeners, [id |-> l, throws |-> throws])
    /\ last' = NoLast
    /\ UNCHANGED <<calls, thrown, cache, stored, deletedQueue, storedQueue, restoreStr,
                   remote, delCalls, upCalls, runs, now, opsLeft, syncsLeft>>
    /\ UNCHANGED extVars

\* the function subscribe returned: listeners.delete(listener)
Unsubscribe(l) ==
    /\ HasId(listeners, l)
    /\ listeners' = FilterOut(listeners, l)
    /\ last' = NoLast
    /\ UNCHANGED <<calls, thrown, cache, stored, deletedQueue, storedQueue, restoreStr,
                   remote, delCalls, upCalls, runs, now, opsLeft, syncsLeft>>
    /\ UNCHANGED extVars

Notify ==
    /\ NotifyListeners
    /\ last' = [NoLast EXCEPT !.kind = "notify"]
    /\ UNCHANGED <<cache, stored, deletedQueue, storedQueue, restoreStr, remote,
                   delCalls, upCalls, runs, now, opsLeft, syncsLeft>>
    /\ UNCHANGED extVars

(***************************************************************************)
(* Specifications.                                                         *)
(***************************************************************************)
Bools == {TRUE, FALSE}

Next ==
    \/ \E r \in RunIds : TriggerFullSync(r)
    \/ \E r \in RunIds, ok \in Bools, o \in Outcomes : FlushStep(r, ok, o)
    \/ \E r \in RunIds, t \in Tables, ok \in Bools : RemoteSelect(r, t, ok)
    \/ \E r \in RunIds, t \in Tables, o \in Outcomes : PassApply(r, t, o)
    \/ \E r \in RunIds : RunFinish(r)
    \/ \E c \in upCalls, ok \in Bools : UpsertSettles(c, ok)
    \/ \E c \in delCalls, ok \in Bools, o \in Outcomes : DeleteSettles(c, ok, o)
    \/ \E t \in Tables, id \in MainIds, o \in Outcomes : AddRecord(t, id, o)
    \/ \E t \in Tables, id \in MainIds, o \in Outcomes : UpdateRecord(t, id, o)
    \/ \E t \in Tables, id \in MainIds, o \in Outcomes, oq \in Outcomes :
          DeleteRecord(t, id, o, oq)
    \/ \E b \in Backups, os \in RestoreOutcomes : RestoreSystemBackup(b, os)
    \/ \E o \in Outcomes : Reload(o)

Spec == Init /\ [][Next]_vars

NextNotify ==
    \/ \E l \in ListenerIds, throws \in Bools : Subscribe(l, throws)
    \/ \E l \in ListenerIds : Unsubscribe(l)
    \/ Notify

SpecNotify == Init /\ [][NextNotify]_vars

(***************************************************************************)
(* Reconciliation over arbitrary caches: one table holds any rows with the *)
(* id shapes below, locally and remotely, with any queue for it, after an  *)
(* earlier restore or none; then syncs run while time passes.              *)
(***************************************************************************)
MergeIds == {IdA, IdUuid, IdDevAdm, IdOwner, IdTs(0), IdDevTs(0)}
RemoteIds == {IdA, IdUuid, IdTs(0)}

\* arrays of at most n records with distinct ids, all of version v
RECURSIVE Arrays(_, _, _)
Arrays(ids, v, n) ==
    IF n = 0 THEN {<<>>}
    ELSE LET shorter == Arrays(ids, v, n - 1)
         IN  shorter \cup
             {Append(a, Rec(id, v)) : <<a, id>> \in
                 {<<a, id>> \in shorter \X ids : Len(a) = n - 1 /\ ~HasId(a, id)}}

Queues(t) ==
    {<<>>} \cup {<<[table |-> t, id |-> id, timestamp |-> Base]>> : id \in MergeIds}

InitMerge ==
    /\ \E t0 \in Tables :
         /\ cache \in {[t \in Tables |-> IF t = t0 THEN a ELSE <<>>] :
                          a \in Arrays(MergeIds, 0, MaxLen)}
         /\ remote \in {[t \in Tables |-> IF t = t0 THEN a ELSE <<>>] :
                          a \in Arrays(RemoteIds, 1, 1)}
         /\ deletedQueue \in Queues(t0)
    /\ stored = [t \in Tables |-> Stringify(cache[t])]
    /\ storedQueue = StringifyQueue(deletedQueue)
    /\ restoreStr \in {<<>>, Digits(Base)}
    /\ delCalls = {}
    /\ upCalls = {}
    /\ runs = [r \in RunIds |-> IdleRun]
    /\ now = Base
    /\ opsLeft = 0
    /\ syncsLeft = 1
    /\ last = NoLast
    /\ listeners = <<>>
    /\ calls = <<>>
    /\ thrown = FALSE
    /\ pull = IdlePull
    /\ events = {}
    /\ aux = {}
    /\ contracts = <<>>
    /\ boards = <<>>
    /\ getters = {}

NextMerge ==
    \/ \E r \in RunIds : TriggerFullSync(r)
    \/ \E r \in RunIds, ok \in Bools, o \in Outcomes : FlushStep(r, ok, o)
    \/ \E r \in RunIds, t \in Tables, ok \in Bools : RemoteSelect(r, t, ok)
    \/ \E r \in RunIds, t \in Tables, o \in Outcomes : PassApply(r, t, o)
    \/ \E r \in RunIds : RunFinish(r)
    \/ ClockTick

SpecMerge == InitMerge /\ [][NextMerge]_vars

(***************************************************************************)
(* The deletion queue under a sync loop that keeps running: both users are *)
(* cached and stored remotely, every storage write goes through, the       *)
(* timer of Layout.tsx keeps calling triggerFullSync, every request        *)
(* settles, and a delete that keeps being attempted for a row succeeds at  *)
(* some attempt.                                                           *)
(***************************************************************************)
\* the invocations of the timer follow one another
LiveRuns == {1}

LivePairs == {Pair("users", id) : id \in MainIds}

InitLive ==
    /\ cache = [t \in Tables |->
                  IF t = "users" THEN <<Rec(IdA, 1), Rec(IdUuid, 1)>> ELSE <<>>]
    /\ stored = [t \in Tables |-> Stringify(cache[t])]
    /\ remote = cache
    /\ deletedQueue = <<>>
    /\ storedQueue = <<>>
    /\ restoreStr = <<>>
    /\ delCalls = {}
    /\ upCalls = {}
    /\ runs = [r \in RunIds |-> IdleRun]
    /\ now = Base
    /\ opsLeft = MaxOps
    /\ syncsLeft = -1
    /\ last = NoLast
    /\ listeners = <<>>
    /\ calls = <<>>
    /\ thrown = FALSE
    /\ pull = IdlePull
    /\ events = {}
    /\ aux = {}
    /\ contracts = <<>>
    /\ boards = <<>>
    /\ getters = {}

\* a remote delete for (table, id) returns without error
DeleteSucceeds(table, id) ==
    \/ \E r \in LiveRuns :
          /\ runs[r].pc = "flush"
          /\ FlushArr(r)[runs[r].idx].table = table
          /\ FlushArr(r)[runs[r].idx].id = id
          /\ FlushStep(r, TRUE, "ok")
    \/ \E c \in delCalls :
          /\ c.table = table
          /\ c.id = id
          /\ DeleteSettles(c, TRUE, "ok")

NextLive ==
    \/ \E r \in LiveRuns : TriggerFullSync(r)
    \/ \E r \in LiveRuns, ok \in Bools : FlushStep(r, ok, "ok")
    \/ \E r \in LiveRuns, t \in Tables, ok \in Bools : RemoteSelect(r, t, ok)
    \/ \E r \in LiveRuns, t \in Tables : PassApply(r, t, "ok")
    \/ \E r \in LiveRuns : RunFinish(r)
    \/ \E c \in upCalls, ok \in Bools : UpsertSettles(c, ok)
    \/ \E c \in delCalls, ok \in Bools : DeleteSettles(c, ok, "ok")
    \/ \E t \in Tables, id \in MainIds : DeleteRecord(t, id, "ok", "ok")
    \/ Reload("ok")

LiveSpec ==
    /\ InitLive
    /\ [][NextLive]_vars
    /\ \A r \in LiveRuns :
          /\ WF_vars(TriggerFullSync(r))
          /\ WF_vars(\E ok \in Bools : FlushStep(r, ok, "ok"))
          /\ WF_vars(\E t \in Tables, ok \in Bools : RemoteSelect(r, t, ok))
          /\ WF_vars(\E t \in Tables : PassApply(r, t, "ok"))
          /\ WF_vars(RunFinish(r))
    /\ WF_vars(\E c \in upCalls, ok \in Bools : UpsertSettles(c, ok))
    /\ WF_vars(\E c \in delCalls, ok \in Bools : DeleteSettles(c, ok, "ok"))
    /\ \A p \in LivePairs : SF_vars(DeleteSucceeds(p.table, p.id))

(***************************************************************************)
(* Properties.                                                             *)
(***************************************************************************)

\* C1: deletion precedence. When a pass has just computed its merged result,
\* no id that was in the deletion queue for the pass's table at that moment is
\* in the merged result, nor in the table's local cache once the pass is over.
C1_DeletionPrecedence ==
    last.kind = "pass" =>
        \A x \in last.pending :
            /\ ~HasId(last.merged, x)
            /\ ~HasId(cache[last.t], x)

\* C3: within a page session an entry leaves the in-memory deletion queue
\* only in a step that has a confirmed remote delete for it (the settling of
\* its deleteFromSupabase call, or the end of a flush whose loop saw the
\* remote store delete it without error), and it leaves the persisted queue
\* only then or after it has left the in-memory queue.
C3_LeavesOnlyWhenConfirmed ==
    [][last'.kind # "reload" =>
         /\ \A e \in QueuePairs(deletedQueue) :
               e \notin QueuePairs(deletedQueue') => e \in last'.confirmed
         /\ \A e \in QueuePairs(ParseQueue(storedQueue)) :
               e \notin QueuePairs(ParseQueue(storedQueue')) =>
                   e \in last'.confirmed \/ e \notin QueuePairs(deletedQueue)]_vars

\* the number of entries of q for (table, id)
EntriesFor(q, table, id) ==
    Cardinality({i \in DOMAIN q : q[i].table = table /\ q[i].id = id})

\* C4: idempotent enqueue. The deletion queue (in memory and as persisted)
\* never holds two entries with the same (table, id), and right after a
\* delete operation has called queueForDeletion the queue holds exactly one
\* entry for that pair, also when the pair was queued already.
C4_IdempotentEnqueue ==
    /\ \A i, j \in DOMAIN deletedQueue :
          i # j => Pair(deletedQueue[i].table, deletedQueue[i].id)
                     # Pair(deletedQueue[j].table, deletedQueue[j].id)
    /\ Cardinality(QueuePairs(ParseQueue(storedQueue))) = Len(storedQueue)
    /\ last.kind = "delete" => EntriesFor(deletedQueue, last.t, last.id) = 1

\* C4 witness: queueForDeletion has just been called for a pair already queued
C4_Witness ==
    /\ last.kind = "delete"
    /\ last.wasQueued
    /\ EntriesFor(deletedQueue, last.t, last.id) = 1

\* C5: listener isolation. A notifyListeners call invokes every subscribed
\* listener, in registration order, whether or not one of them throws.
C5_ListenerIsolation ==
    last.kind = "notify" => calls = [i \in DOMAIN listeners |-> listeners[i].id]

\* the tables the step just taken mutated, whatever became of their save
Mutated == last.written \cup last.unwritten

LocalOnlyKept ==
    {i \in DOMAIN last.localData :
        /\ ~HasId(last.remoteData, last.localData[i].id)
        /\ last.localData[i].id \notin last.pending}

\* the timestamps an id embeds: its numeric parts of more than ten digits
EmbeddedTimestamps(id) ==
    {id[i].val : i \in {j \in DOMAIN id : id[j].num /\ id[j].len > TsPartLength}}

\* the id embeds a timestamp less than ten minutes before the pass
FreshId(id) == \E ts \in EmbeddedTimestamps(id) : last.at - ts < NewLocalWindow

\* the id embeds a timestamp, and none less than ten minutes before the pass
StaleId(id) ==
    /\ EmbeddedTimestamps(id) # {}
    /\ \A ts \in EmbeddedTimestamps(id) : last.at - ts >= NewLocalWindow

\* the id has the static or sentinel shape
StaticId(id) ==
    \/ IdLength(id) < StaticIdLength
    \/ StartsWith(id, "dev")
    \/ StartsWith(id, "owner")

\* a restore was stamped less than five minutes before the run began
RestoredRecently ==
    /\ last.restoreSeen # <<>>
    /\ last.startAt - ParseInt(last.restoreSeen) < RestoreWindow

\* how many upserts the pass issued for a row
UpsertsOf(row) == Cardinality({k \in DOMAIN last.upserts : last.upserts[k] = row})

\* C7: a local-only row that is not pending deletion and whose id embeds a
\* timestamp less than 600000 ms old is in the merged result, and the pass
\* issues exactly one remote upsert for it.
C7_FreshLocalKept ==
    last.kind = "pass" =>
        \A i \in LocalOnlyKept :
            FreshId(last.localData[i].id) =>
                /\ \E k \in DOMAIN last.merged : last.merged[k] = last.localData[i]
                /\ UpsertsOf(last.localData[i]) = 1

\* C7 witness: a pass over a table other than users, with no recent restore,
\* kept a fresh local-only row whose id has no static shape
C7_Witness ==
    /\ last.kind = "pass" /\ last.t # "users" /\ ~RestoredRecently
    /\ \E i \in LocalOnlyKept :
          /\ FreshId(last.localData[i].id)
          /\ ~StaticId(last.localData[i].id)
          /\ HasId(last.merged, last.localData[i].id)
          /\ HasId(cache[last.t], last.localData[i].id)

C9_StaticIdKept ==
    last.kind = "pass" =>
        \A i \in LocalOnlyKept :
            StaticId(last.localData[i].id) => HasId(last.merged, last.localData[i].id)

\* C10: when a restore was stamped less than 300000 ms before the run, every
\* local-only row that is not pending deletion is in the merged result and
\* is upserted.
C10_RecentRestoreKeepsAll ==
    (last.kind = "pass" /\ RestoredRecently) =>
        \A i \in LocalOnlyKept :
            /\ \E k \in DOMAIN last.merged : last.merged[k] = last.localData[i]
            /\ UpsertsOf(last.localData[i]) >= 1

\* C10 witness: after a recent restore a pass over a table other than users
\* kept a row with a stale timestamp and no static shape
C10_Witness ==
    /\ last.kind = "pass" /\ last.t # "users" /\ RestoredRecently
    /\ \E i \in LocalOnlyKept :
          /\ StaleId(last.localData[i].id)
          /\ ~StaticId(last.localData[i].id)
          /\ HasId(last.merged, last.localData[i].id)
          /\ UpsertsOf(last.localData[i]) >= 1

\* C2: every pair enqueued for deletion is eventually applied to the remote
\* store: the remote row is gone and the entry has left the queue.
C2_EventuallyApplied ==
    \A p \in LivePairs :
        (p \in QueuePairs(deletedQueue)) ~>
            (~HasId(remote[p.table], p.id) /\ p \notin QueuePairs(deletedQueue))

\* C11: when the fetch of a collection fails, that pass of the run changes
\* neither the collection's cache nor its persisted copy, issues no upsert,
\* marks no change, and the run goes on without an exception.
C11_FailedFetchChangesNothing ==
    [][(last'.kind \in {"fetch_failed", "pass"} /\ last'.failed) =>
          /\ cache' = cache
          /\ stored' = stored
          /\ upCalls' = upCalls
          /\ \A r \in RunIds : /\ runs'[r].hasChanges = runs[r].hasChanges
                               /\ runs'[r].pc = runs[r].pc
          /\ thrown' = thrown]_vars

\* C11 witness: the fetch of a collection holding local rows has just failed
\* and the pass is over
C11_Witness ==
    /\ last.kind = "fetch_failed"
    /\ cache[last.t] # <<>>
    /\ \E r \in RunIds : /\ runs[r].pc = "tables"
                         /\ runs[r].pass[last.t].st = "done"
                         /\ runs[r].pass[last.t].failed
                         /\ ~runs[r].hasChanges

\* C12: no-op persistence. When the merged result of a pass is structurally
\* identical to the collection's in-memory array at the moment the pass
\* applies, the pass calls no saveToStorage, does not replace the array and
\* marks no change.
C12_NoOpPersistence ==
    (last.kind = "pass" /\ Stringify(last.merged) = Stringify(last.current)) =>
        /\ ~last.applied
        /\ last.written = {}
        /\ last.unwritten = {}

\* C13: a pass replaces and saves the collection exactly when its merged
\* result differs structurally from the collection's in-memory array, and a
\* run notifies the listeners before it returns exactly when one of its
\* passes changed a collection.
C13_AppliesAndNotifiesExactlyOnChange ==
    /\ last.kind = "pass" =>
          (last.applied <=> Stringify(last.merged) # Stringify(last.current))
    /\ last.kind = "run_end" => (last.notified <=> last.changed)

(***************************************************************************)
(* Merge order.  One reconciliation pass over one collection with an empty *)
(* deletion queue; the remote table holds up to two rows, so the order of  *)
(* the remote rows and of the kept local rows both show.                   *)
(***************************************************************************)
InitOrder ==
    /\ \E t0 \in Tables :
         /\ cache \in {[t \in Tables |-> IF t = t0 THEN a ELSE <<>>] :
                          a \in Arrays(MergeIds, 0, MaxLen)}
         /\ remote \in {[t \in Tables |-> IF t = t0 THEN a ELSE <<>>] :
                          a \in Arrays(RemoteIds, 1, MaxLen)}
    /\ deletedQueue = <<>>
    /\ stored = [t \in Tables |-> Stringify(cache[t])]
    /\ storedQueue = StringifyQueue(deletedQueue)
    /\ restoreStr \in {<<>>, Digits(Base)}
    /\ delCalls = {}
    /\ upCalls = {}
    /\ runs = [r \in RunIds |-> IdleRun]
    /\ now = Base
    /\ opsLeft = 0
    /\ syncsLeft = 1
    /\ last = NoLast
    /\ listeners = <<>>
    /\ calls = <<>>
    /\ thrown = FALSE
    /\ pull = IdlePull
    /\ events = {}
    /\ aux = {}
    /\ contracts = <<>>
    /\ boards = <<>>
    /\ getters = {}

NextOrder ==
    \/ \E r \in RunIds : TriggerFullSync(r)
    \/ \E r \in RunIds, t \in Tables, ok \in Bools : RemoteSelect(r, t, ok)
    \/ \E r \in RunIds, t \in Tables, o \in Outcomes : PassApply(r, t, o)
    \/ \E r \in RunIds : RunFinish(r)
    \/ ClockTick

SpecOrder == InitOrder /\ [][NextOrder]_vars

\* the local-only rows of the last pass that its merged result holds, in the
\* order of the local snapshot
IncludedLocalOnly ==
    LET Kept(l) == /\ ~HasId(last.remoteData, l.id)
                   /\ HasId(last.merged, l.id)
    IN  SelectSeq(last.localData, Kept)

\* C14: with an empty deletion queue the merged result of a pass is the
\* remote rows, unchanged and in remote order, followed by the included
\* local-only rows in local order, each of which is upserted exactly once;
\* local [a, billboard-<fresh timestamp>] against remote [a] gives
\* [remote a, billboard-<fresh timestamp>] and one upsert, for the second row.
C14_RemoteThenLocalOrder ==
    (last.kind = "pass" /\ ~last.failed /\ last.pending = {}) =>
        /\ last.merged = last.remoteData \o IncludedLocalOnly
        /\ last.upserts = IncludedLocalOnly
        /\ (/\ last.localData = <<Rec(IdA, 0), Rec(IdTs(0), 0)>>
            /\ last.remoteData = <<Rec(IdA, 1)>>
            /\ FreshId(IdTs(0)))
              => /\ last.merged = <<Rec(IdA, 1), Rec(IdTs(0), 0)>>
                 /\ last.upserts = <<Rec(IdTs(0), 0)>>

\* C14 witness: the pass of the example has just run: local
\* [a, billboard-<fresh timestamp>] against remote [a]
C14_Witness ==
    /\ last.kind = "pass"
    /\ last.pending = {}
    /\ last.localData = <<Rec(IdA, 0), Rec(IdTs(0), 0)>>
    /\ last.remoteData = <<Rec(IdA, 1)>>
    /\ FreshId(IdTs(0))
    /\ last.merged = <<Rec(IdA, 1), Rec(IdTs(0), 0)>>
    /\ Len(last.upserts) = 1

(***************************************************************************)
(* saveToStorage on its own: the storage holds any values under the        *)
(* collection keys and any of the auxiliary keys, and saveToStorage is     *)
(* called on a collection key or on an auxiliary key with any outcome of   *)
(* the write.                                                              *)
(***************************************************************************)
SaveIds == {IdA, IdUuid}

InitSave ==
    /\ cache = [t \in Tables |-> <<>>]
    /\ stored \in [Tables -> {Stringify(a) : a \in Arrays(SaveIds, 0, 1)}]
    /\ aux \in SUBSET AuxKeys
    /\ contracts = <<>>
    /\ boards = <<>>
    /\ getters = {}
    /\ deletedQueue = <<>>
    /\ storedQueue = <<>>
    /\ restoreStr = <<>>
    /\ remote = [t \in Tables |-> <<>>]
    /\ delCalls = {}
    /\ upCalls = {}
    /\ runs = [r \in RunIds |-> IdleRun]
    /\ now = Base
    /\ opsLeft = 0
    /\ syncsLeft = 0
    /\ last = NoLast
    /\ listeners = <<>>
    /\ calls = <<>>
    /\ thrown = FALSE
    /\ pull = IdlePull
    /\ events = {}

\* saveToStorage(key, data) on the key of collection t
SaveCollection(t, data, o) ==
    /\ stored' = [stored EXCEPT ![t] = SaveToStorage(@, data, o)]
    /\ aux' = Cleanup(aux, o)
    /\ thrown' = SaveThrows(o)
    /\ last' = [NoLast EXCEPT !.kind = "save", !.key = t, !.outcome = o,
                              !.attempts = SetItemCalls(o),
                              !.removed = aux \ Cleanup(aux, o), !.data = data]
    /\ UNCHANGED <<cache, deletedQueue, storedQueue, restoreStr, remote, delCalls,
                   upCalls, runs, now, opsLeft, syncsLeft, listeners, calls,
                   pull, events,
                   contracts, boards, getters>>

\* saveToStorage(key, data) on an auxiliary key: the key is there afterwards
\* when the write went through
SaveAuxKey(k, o) ==
    /\ aux' = IF Written(o) THEN Cleanup(aux, o) \cup {k} ELSE Cleanup(aux, o)
    /\ thrown' = SaveThrows(o)
    /\ last' = [NoLast EXCEPT !.kind = "save", !.key = k, !.outcome = o,
                              !.attempts = SetItemCalls(o),
                              !.removed = aux \ Cleanup(aux, o)]
    /\ UNCHANGED <<cache, stored, deletedQueue, storedQueue, restoreStr, remote,
                   delCalls, upCalls, runs, now, opsLeft, syncsLeft, listeners,
                   calls, pull, events,
                   contracts, boards, getters>>

NextSave ==
    \/ \E t \in Tables, data \in Arrays(SaveIds, 0, MaxLen), o \in Outcomes :
          SaveCollection(t, data, o)
    \/ \E k \in SavedAuxKeys, o \in Outcomes : SaveAuxKey(k, o)

SpecSave == InitSave /\ [][NextSave]_vars

\* C15: quota fallback. A saveToStorage whose first write throws a quota
\* error removes the audit-log, auto-backup and cloud-mirror keys and no
\* other, writes exactly once more, leaves the new value under the key when
\* that retry succeeds, and lets no exception reach its caller whether the
\* retry succeeds or fails.
C15_QuotaFallback ==
    [][(last'.kind = "save" /\ QuotaError(last'.outcome)) =>
          /\ aux' \ {last'.key} = (aux \ Recreatable) \ {last'.key}
          /\ last'.attempts = 2
          /\ last'.outcome = "quota_retry_ok" =>
                /\ last'.key \in Tables => stored'[last'.key] = Stringify(last'.data)
                /\ last'.key \in AuxKeys => last'.key \in aux'
          /\ \A t \in Tables \ {last'.key} : stored'[t] = stored[t]
          /\ ~thrown']_vars

\* C15 witness: a save of a non-empty collection has just hit the quota,
\* removed the three recreatable keys, and its retry has stored the value
C15_Witness ==
    /\ last.kind = "save"
    /\ last.outcome = "quota_retry_ok"
    /\ last.key \in Tables
    /\ last.data # <<>>
    /\ last.removed = Recreatable
    /\ last.attempts = 2
    /\ stored[last.key] = Stringify(last.data)
    /\ aux = {"logo"}
    /\ contracts = <<>>
    /\ boards = <<>>
    /\ getters = {}
    /\ ~thrown

(***************************************************************************)
(* Every exported operation under every failure: one mutation or page      *)
(* reload beside one triggerFullSync or one pullAllDataFromSupabase, with  *)
(* remote reads and writes that fail, storage writes that fail, and a      *)
(* collection key whose string is damaged.                                 *)
(***************************************************************************)
InitFail ==
    /\ cache = [t \in Tables |-> <<>>]
    /\ stored = [t \in Tables |-> <<>>]
    /\ deletedQueue = <<>>
    /\ storedQueue = <<>>
    /\ restoreStr = <<>>
    /\ remote \in {[t \in Tables |-> a] : a \in Arrays({IdA}, 1, 1)}
    /\ delCalls = {}
    /\ upCalls = {}
    /\ runs = [r \in RunIds |-> IdleRun]
    /\ now = Base
    /\ opsLeft = 1
    /\ \E sync \in Bools :
         /\ syncsLeft = IF sync THEN MaxSyncs ELSE 0
         /\ pull = [IdlePull EXCEPT !.left = IF sync THEN 0 ELSE MaxPulls]
    /\ last = NoLast
    /\ listeners = <<>>
    /\ calls = <<>>
    /\ thrown = FALSE
    /\ events = {}
    /\ aux = {}
    /\ contracts = <<>>
    /\ boards = <<>>
    /\ getters = {}

NextFail ==
    \/ \E r \in RunIds : TriggerFullSync(r)
    \/ \E r \in RunIds, ok \in Bools, o \in Outcomes : FlushStep(r, ok, o)
    \/ \E r \in RunIds, t \in Tables, ok \in Bools : RemoteSelect(r, t, ok)
    \/ \E r \in RunIds, t \in Tables, o \in Outcomes : PassApply(r, t, o)
    \/ \E r \in RunIds : RunFinish(r)
    \/ \E c \in upCalls, ok \in Bools : UpsertSettles(c, ok)
    \/ \E c \in delCalls, ok \in Bools, o \in Outcomes : DeleteSettles(c, ok, o)
    \/ \E t \in Tables, id \in MainIds, o \in Outcomes : AddRecord(t, id, o)
    \/ \E t \in Tables, id \in MainIds, o \in Outcomes : UpdateRecord(t, id, o)
    \/ \E t \in Tables, id \in MainIds, o \in Outcomes, oq \in Outcomes :
          DeleteRecord(t, id, o, oq)
    \/ \E b \in Backups, os \in RestoreOutcomes : RestoreSystemBackup(b, os)
    \/ \E o \in Outcomes : Reload(o)
    \/ \E t \in Tables : CorruptStorage(t)
    \/ PullStart
    \/ \E ok \in Bools : PullFetch(ok)
    \/ \E o \in Outcomes : PullSet(o)
    \/ PullFinish

SpecFail == InitFail /\ [][NextFail]_vars

NewerRec == Rec(IdA, 2)

\* another session upserts a newer version of the row into the remote table
OtherSessionUpsert(t) ==
    /\ NewerRec \notin Range(remote[t])
    /\ HasId(remote[t], NewerRec.id)
    /\ remote' = [remote EXCEPT ![t] = RemoteUpsert(@, NewerRec)]
    /\ last' = [NoLast EXCEPT !.kind = "other_session", !.t = t]
    /\ UNCHANGED <<cache, stored, deletedQueue, storedQueue, restoreStr, delCalls,
                   upCalls, runs, now, opsLeft, syncsLeft, notifyVars, extVars>>

InitRace ==
    /\ \E t0 \in Tables :
         /\ cache \in {[t \in Tables |-> IF t = t0 THEN a ELSE <<>>] :
                          a \in Arrays({IdA}, 0, 1)}
         /\ remote = [t \in Tables |-> IF t = t0 THEN <<Rec(IdA, 1)>> ELSE <<>>]
    /\ stored = [t \in Tables |-> Stringify(cache[t])]
    /\ deletedQueue = <<>>
    /\ storedQueue = <<>>
    /\ restoreStr = <<>>
    /\ delCalls = {}
    /\ upCalls = {}
    /\ runs = [r \in RunIds |-> IdleRun]
    /\ now = Base
    /\ opsLeft = 0
    /\ syncsLeft = Cardinality(RunIds)
    /\ last = NoLast
    /\ listeners = <<>>
    /\ calls = <<>>
    /\ thrown = FALSE
    /\ pull = IdlePull
    /\ events = {}
    /\ aux = {}
    /\ contracts = <<>>
    /\ boards = <<>>
    /\ getters = {}

NextRace ==
    \/ \E r \in RunIds : TriggerFullSync(r)
    \/ \E r \in RunIds, t \in Tables, ok \in Bools : RemoteSelect(r, t, ok)
    \/ \E r \in RunIds, t \in Tables, o \in Outcomes : PassApply(r, t, o)
    \/ \E r \in RunIds : RunFinish(r)
    \/ \E t \in Tables : OtherSessionUpsert(t)

SpecRace == InitRace /\ [][NextRace]_vars

\* C17: nothing keeps a triggerFullSync from starting while another one is
\* in flight, so two passes over one collection can run at the same time,
\* and a pass that applies writes the merge of its own snapshots whatever
\* the cache holds by then: the pass that fetched the older remote snapshot
\* can apply last and overwrite what the pass with the newer one wrote.
C17_NoLockBetweenPasses ==
    /\ \A r \in RunIds :
          (/\ runs[r].pc = "idle"
           /\ \A r2 \in RunIds : r2 < r => runs[r2].pc # "idle"
           /\ syncsLeft # 0) => ENABLED TriggerFullSync(r)
    /\ (last.kind = "pass" /\ last.applied) => cache[last.t] = last.merged

\* C17 witness: the lost update. Both invocations are in flight with their
\* pass over the collection done; the pass that has just applied fetched
\* version 1 of the row before the other session wrote version 2, and it
\* has replaced the cache the other pass had set to version 2.
C17_Witness ==
    /\ last.kind = "pass"
    /\ last.applied
    /\ last.remoteData = <<Rec(IdA, 1)>>
    /\ last.current = <<NewerRec>>
    /\ cache[last.t] = <<Rec(IdA, 1)>>
    /\ remote[last.t] = <<NewerRec>>
    /\ \A r \in RunIds : runs[r].pc = "tables" /\ runs[r].pass[last.t].st = "done"

(***************************************************************************)
(* Two tabs on one localStorage.  Another tab saves a collection or the    *)
(* deletion queue; the browser then delivers a storage event to this tab,  *)
(* whose handler reloads the variable its switch has a case for and        *)
(* notifies the listeners.                                                 *)
(***************************************************************************)
QueueKey == "deleted_queue"

\* the keys the switch of the handler has a case for
HandledKeys == Tables

TabQueues == {<<>>, <<[table |-> "users", id |-> IdA, timestamp |-> Base]>>}

\* saveToStorage(key, data) in another tab, the write going through
OtherTabSave(t, data) ==
    /\ stored[t] # Stringify(data)
    /\ stored' = [stored EXCEPT ![t] = Stringify(data)]
    /\ events' = events \cup {t}
    /\ last' = [NoLast EXCEPT !.kind = "other_tab_save", !.key = t]
    /\ UNCHANGED <<cache, deletedQueue, storedQueue, restoreStr, remote, delCalls,
                   upCalls, runs, now, opsLeft, syncsLeft, notifyVars, pull, aux,
                   contracts, boards, getters>>

\* saveToStorage(STORAGE_KEYS.DELETED_QUEUE, deletedQueue) in another tab
OtherTabSaveQueue(q) ==
    /\ storedQueue # StringifyQueue(q)
    /\ storedQueue' = StringifyQueue(q)
    /\ events' = events \cup {QueueKey}
    /\ last' = [NoLast EXCEPT !.kind = "other_tab_save", !.key = QueueKey]
    /\ UNCHANGED <<cache, stored, deletedQueue, restoreStr, remote, delCalls,
                   upCalls, runs, now, opsLeft, syncsLeft, notifyVars, pull, aux,
                   contracts, boards, getters>>

\* the 'storage' event handler, for an event whose key starts with "db_"
StorageEvent(k) ==
    /\ k \in events
    /\ events' = events \ {k}
    /\ cache' = IF k \in HandledKeys
                THEN [cache EXCEPT ![k] = LoadFromStorage(stored[k], <<>>)]
                ELSE cache
    /\ NotifyListeners
    /\ last' = [NoLast EXCEPT !.kind = "storage_event", !.key = k]
    /\ UNCHANGED <<stored, deletedQueue, storedQueue, restoreStr, remote, delCalls,
                   upCalls, runs, now, opsLeft, syncsLeft, pull, aux,
                   contracts, boards, getters>>

NextTabs ==
    \/ \E t \in Tables, data \in Arrays(SaveIds, 0, 1) : OtherTabSave(t, data)
    \/ \E q \in TabQueues : OtherTabSaveQueue(q)
    \/ \E k \in Tables \cup {QueueKey} : StorageEvent(k)
    \/ \E l \in ListenerIds : Subscribe(l, FALSE)

SpecTabs == Init /\ [][NextTabs]_vars

\* C18: when another tab has saved a persisted key and this tab has handled
\* the storage event, this tab's in-memory copy of that key equals the value
\* now persisted under it and every listener has been called, for the
\* collections and for the deletion queue alike.
C18_MirrorRefreshedOnStorageEvent ==
    last.kind = "storage_event" =>
        /\ last.key \in Tables =>
              cache[last.key] = LoadFromStorage(stored[last.key], <<>>)
        /\ last.key = QueueKey => deletedQueue = ParseQueue(storedQueue)
        /\ calls = [i \in DOMAIN listeners |-> listeners[i].id]

(***************************************************************************)
(* pullAllDataFromSupabase on its own: one call over any small local and   *)
(* remote contents, while another session may write the remote row.        *)
(***************************************************************************)
InitPull ==
    /\ cache \in [Tables -> Arrays(SaveIds, 0, 1)]
    /\ stored = [t \in Tables |-> Stringify(cache[t])]
    /\ remote \in [Tables -> Arrays({IdA}, 1, 1)]
    /\ deletedQueue = <<>>
    /\ storedQueue = <<>>
    /\ restoreStr = <<>>
    /\ delCalls = {}
    /\ upCalls = {}
    /\ runs = [r \in RunIds |-> IdleRun]
    /\ now = Base
    /\ opsLeft = 0
    /\ syncsLeft = 0
    /\ last = NoLast
    /\ listeners = <<>>
    /\ calls = <<>>
    /\ thrown = FALSE
    /\ pull = [IdlePull EXCEPT !.left = MaxPulls]
    /\ events = {}
    /\ aux = {}
    /\ contracts = <<>>
    /\ boards = <<>>
    /\ getters = {}

NextPull ==
    \/ PullStart
    \/ \E ok \in Bools : PullFetch(ok)
    \/ \E o \in Outcomes : PullSet(o)
    \/ PullFinish
    \/ \E t \in Tables : OtherSessionUpsert(t)

SpecPull == InitPull /\ [][NextPull]_vars

C20_FailedUpsertLeavesNoTrace ==
    [][last'.kind = "upsert_failed" =>
          /\ cache' = cache
          /\ stored' = stored
          /\ deletedQueue' = deletedQueue
          /\ storedQueue' = storedQueue
          /\ remote' = remote
          /\ upCalls' = upCalls \ {[table |-> last'.t, rec |-> last'.data[1]]}
          /\ delCalls' = delCalls
          /\ runs' = runs
          /\ restoreStr' = restoreStr
          /\ <<listeners', calls', pull', events', aux'>> = <<listeners, calls, pull, events, aux>>
          /\ ~thrown']_vars

\* C20 witness: the upsert of an added record has just failed; no sync or
\* pull has run; the record is in the array and in the persisted copy, the
\* remote table does not hold it, and no call and no queue entry is left
C20_Witness ==
    /\ last.kind = "upsert_failed"
    /\ syncsLeft = 0
    /\ pull = [IdlePull EXCEPT !.left = MaxPulls]
    /\ last.data[1].v = 0
    /\ last.data[1] \in Range(cache[last.t])
    /\ stored[last.t] = Stringify(cache[last.t])
    /\ ~HasId(remote[last.t], last.id)
    /\ upCalls = {}
    /\ deletedQueue = <<>>
    /\ storedQueue = <<>>

(***************************************************************************)
(* A specification for the question of duplicate ids: the handlers of      *)
(* Spec with every write to storage going through, a wholesale pull, and   *)
(* addX called with a record whose id the collection already shows.        *)
(***************************************************************************)

\* addBillboard / addUser called with an id that is already cached: the
\* handler appends without looking at the array
AddExisting(t, id, o) ==
    /\ opsLeft > 0
    /\ HasId(cache[t], id)
    /\ opsLeft' = opsLeft - 1
    /\ cache' = [cache EXCEPT ![t] = Append(@, Rec(id, 0))]
    /\ stored' = [stored EXCEPT ![t] = SaveToStorage(@, cache'[t], o)]
    /\ upCalls' = upCalls \cup {[table |-> t, rec |-> Rec(id, 0)]}
    /\ NotifyListenersAfter(SaveThrows(o))
    /\ last' = [NoLast EXCEPT !.kind = "add", !.t = t, !.id = id,
                              !.written = IF Written(o) THEN {t} ELSE {},
                              !.unwritten = IF Written(o) THEN {} ELSE {t}]
    /\ UNCHANGED <<syncsLeft, deletedQueue, storedQueue, restoreStr, remote, delCalls, runs, now>>
    /\ UNCHANGED extVars

InitIds ==
    /\ cache = [t \in Tables |-> <<>>]
    /\ stored = [t \in Tables |-> <<>>]
    /\ deletedQueue = <<>>
    /\ storedQueue = <<>>
    /\ restoreStr = <<>>
    /\ remote \in {[t \in Tables |-> a] : a \in Arrays({IdA}, 1, 1)}
    /\ delCalls = {}
    /\ upCalls = {}
    /\ runs = [r \in RunIds |-> IdleRun]
    /\ now = Base
    /\ opsLeft = MaxOps
    /\ \E sync \in Bools :
         /\ syncsLeft = IF sync THEN MaxSyncs ELSE 0
         /\ pull = [IdlePull EXCEPT !.left = IF sync THEN 0 ELSE MaxPulls]
    /\ last = NoLast
    /\ listeners = <<>>
    /\ calls = <<>>
    /\ thrown = FALSE
    /\ events = {}
    /\ aux = {}
    /\ contracts = <<>>
    /\ boards = <<>>
    /\ getters = {}

NextIds ==
    \/ \E r \in RunIds : TriggerFullSync(r)
    \/ \E r \in RunIds, ok \in Bools : FlushStep(r, ok, "ok")
    \/ \E r \in RunIds, t \in Tables, ok \in Bools : RemoteSelect(r, t, ok)
    \/ \E r \in RunIds, t \in Tables : PassApply(r, t, "ok")
    \/ \E r \in RunIds : RunFinish(r)
    \/ \E c \in upCalls, ok \in Bools : UpsertSettles(c, ok)
    \/ \E c \in delCalls, ok \in Bools : DeleteSettles(c, ok, "ok")
    \/ \E t \in Tables, id \in MainIds : AddRecord(t, id, "ok")
    \/ \E t \in Tables, id \in MainIds : AddExisting(t, id, "ok")
    \/ \E t \in Tables, id \in MainIds : UpdateRecord(t, id, "ok")
    \/ \E t \in Tables, id \in MainIds : DeleteRecord(t, id, "ok", "ok")
    \/ \E b \in Backups : RestoreSystemBackup(b, [t \in Tables |-> "ok"])
    \/ PullStart
    \/ \E ok \in Bools : PullFetch(ok)
    \/ PullSet("ok")
    \/ PullFinish

SpecIds == InitIds /\ [][NextIds]_vars

\* C21: in every reachable state each collection's cache holds at most one
\* record per id
C21_OneRecordPerId ==
    \A t \in Tables :
        \A i, j \in DOMAIN cache[t] : cache[t][i].id = cache[t][j].id => i = j

(***************************************************************************)
(* A specification for the footprint of a reconciliation pass: the         *)
(* auxiliary keys are present, the remote tables hold rows, and the write  *)
(* of a pass may meet every storage outcome.                               *)
(***************************************************************************)
InitFrame ==
    /\ cache = [t \in Tables |-> <<>>]
    /\ stored = [t \in Tables |-> <<>>]
    /\ deletedQueue = <<>>
    /\ storedQueue = <<>>
    /\ restoreStr = <<>>
    /\ remote \in {[t \in Tables |-> a] : a \in Arrays({IdA}, 1, 1)}
    /\ delCalls = {}
    /\ upCalls = {}
    /\ runs = [r \in RunIds |-> IdleRun]
    /\ now = Base
    /\ opsLeft = 1
    /\ syncsLeft = MaxSyncs
    /\ last = NoLast
    /\ listeners = <<>>
    /\ calls = <<>>
    /\ thrown = FALSE
    /\ pull = [IdlePull EXCEPT !.left = 0]
    /\ events = {}
    /\ aux = AuxKeys
    /\ contracts = <<>>
    /\ boards = <<>>
    /\ getters = {}

NextFrame ==
    \/ \E r \in RunIds : TriggerFullSync(r)
    \/ \E r \in RunIds, ok \in Bools : FlushStep(r, ok, "ok")
    \/ \E r \in RunIds, t \in Tables, ok \in Bools : RemoteSelect(r, t, ok)
    \/ \E r \in RunIds, t \in Tables, o \in Outcomes : PassApply(r, t, o)
    \/ \E r \in RunIds : RunFinish(r)
    \/ \E c \in upCalls, ok \in Bools : UpsertSettles(c, ok)
    \/ \E c \in delCalls, ok \in Bools : DeleteSettles(c, ok, "ok")
    \/ \E t \in Tables, id \in MainIds : AddRecord(t, id, "ok")
    \/ \E t \in Tables, id \in MainIds : DeleteRecord(t, id, "ok", "ok")

SpecFrame == InitFrame /\ [][NextFrame]_vars

\* a step in which the pass over a collection resumes leaves the other
\* collections, their storage keys, the deletion queue and the restore
\* timestamp as they were
PassLeavesOthers ==
    last'.kind = "pass" =>
        /\ \A u \in Tables \ {last'.t} : cache'[u] = cache[u] /\ stored'[u] = stored[u]
        /\ deletedQueue' = deletedQueue
        /\ storedQueue' = storedQueue
        /\ restoreStr' = restoreStr
        /\ remote' = remote

\* a pass leaves the state "fetching" only by its own fetch, and a pass that
\* has its rows leaves the state "fetched" only by its own steps B to D, which
\* apply the merged result when it differs from the local rows they were given
PassesIndependent ==
    \A r \in RunIds, t \in Tables :
        /\ (runs[r].pass[t].st = "fetching" /\ runs'[r].pass[t].st # "fetching") =>
              \/ runs'[r].pass[t].st = "fetched"
              \/ last'.kind = "fetch_failed" /\ last'.t = t
        /\ (runs[r].pass[t].st = "fetched" /\ runs'[r].pass[t].st # "fetched") =>
              /\ last'.kind = "pass" /\ last'.t = t
              /\ last'.applied <=> Stringify(last'.localData) # Stringify(last'.merged)
              /\ last'.applied => cache'[t] = last'.merged

\* C22 as stated: a pass over C modifies only C's cache and C's storage key
\* (no other key of the storage changes), and a failure in one pass does not
\* keep the other passes of the run from applying their results
C22_PassTouchesOnlyItsCollection ==
    [][/\ PassLeavesOthers
       /\ last'.kind = "pass" => aux' = aux
       /\ PassesIndependent]_vars

\* C22, amended: a pass over C modifies only C's cache and C's storage key,
\* except that a write which meets a quota error also removes the recreatable
\* keys (audit log, automatic backup, cloud mirror); a failure in one pass
\* does not keep the other passes of the run from applying their results
C22_PassTouchesOnlyItsCollectionAndRecreatable ==
    [][/\ PassLeavesOthers
       /\ last'.kind = "pass" =>
             \/ aux' = aux
             \/ last'.applied /\ aux' = aux \ Recreatable
       /\ PassesIndependent]_vars

\* a pass applied its merged result with a quota error on the write, in a run
\* whose other pass failed to fetch
C22_Witness ==
    /\ last.kind = "pass"
    /\ last.applied
    /\ cache[last.t] = last.merged
    /\ aux = AuxKeys \ Recreatable
    /\ contracts = <<>>
    /\ boards = <<>>
    /\ getters = {}
    /\ \E r \in RunIds, u \in Tables \ {last.t} : runs[r].pass[u].failed

(***************************************************************************)
(* loadFromStorage on its own: a collection key is absent, holds the JSON  *)
(* text of an array or of null, or holds a string JSON.parse rejects, and  *)
(* the function is called with any default.                                *)
(***************************************************************************)
LoadIds == {IdA, IdUuid}

LoadDefaults == {NullValue, <<>>, <<Rec(IdOwner, 0)>>}

ValidJson == {Stringify(a) : a \in Arrays(LoadIds, 1, MaxLen) \cup {NullValue}}

InitLoad ==
    /\ cache = [t \in Tables |-> <<>>]
    /\ stored \in [Tables -> ValidJson \cup {AbsentKey}]
    /\ aux = {}
    /\ contracts = <<>>
    /\ boards = <<>>
    /\ getters = {}
    /\ deletedQueue = <<>>
    /\ storedQueue = <<>>
    /\ restoreStr = <<>>
    /\ remote = [t \in Tables |-> <<>>]
    /\ delCalls = {}
    /\ upCalls = {}
    /\ runs = [r \in RunIds |-> IdleRun]
    /\ now = Base
    /\ opsLeft = 0
    /\ syncsLeft = 0
    /\ last = NoLast
    /\ listeners = <<>>
    /\ calls = <<>>
    /\ thrown = FALSE
    /\ pull = IdlePull
    /\ events = {}

\* loadFromStorage(key, defaultValue) on the key of collection t; last.got is
\* the value returned, last.data the default
Load(t, defaultValue) ==
    /\ thrown' = LoadThrows(stored[t])
    /\ last' = [NoLast EXCEPT !.kind = "load", !.key = t, !.data = defaultValue,
                              !.got = LoadFromStorage(stored[t], defaultValue)]
    /\ UNCHANGED <<cache, stored, deletedQueue, storedQueue, restoreStr, remote,
                   delCalls, upCalls, runs, now, opsLeft, syncsLeft, listeners,
                   calls, pull, events, aux,
                   contracts, boards, getters>>

NextLoad ==
    \/ \E t \in Tables, d \in LoadDefaults : Load(t, d)
    \/ \E t \in Tables : CorruptStorage(t)

SpecLoad == InitLoad /\ [][NextLoad]_vars

\* C23: after loadFromStorage(key, default), the value returned is the one
\* whose JSON text the key holds when the key holds valid JSON, and is the
\* default when the key is absent or holds corrupt JSON; nothing is thrown
C23_LoadReturnsStoredOrDefault ==
    last.kind = "load" =>
        /\ ~thrown
        /\ stored[last.key] \in ValidJson => Stringify(last.got) = stored[last.key]
        /\ stored[last.key] \in {AbsentKey, CorruptJson} => last.got = last.data

\* a load of a corrupt key with a non-empty default, in a storage whose other
\* key holds an array
C23_Witness ==
    /\ last.kind = "load"
    /\ stored[last.key] = CorruptJson
    /\ last.data = <<Rec(IdOwner, 0)>>
    /\ last.got = last.data
    /\ \E u \in Tables \ {last.key} : stored[u] \in ValidJson /\ Len(stored[u]) = MaxLen

(***************************************************************************)
(* Contracts and the rental fields of the billboards they reference:       *)
(* addContract and deleteContract on an inventory of one Static and one    *)
(* LED billboard.  The contract's own storage key is written by the        *)
(* handlers as well; it is not among the keys the model tracks.            *)
(***************************************************************************)
MaxContractOps == 3

BoardStatic == IdA
BoardLed == IdUuid

ContractIds == {IdA, IdUuid}

\* contract.side, "none" when the field is not set
Sides == {"A", "B", "Both", "none"}

\* the texts 'Side A' and 'Side B' that contract.details may include
DetailTexts == SUBSET {"Side A", "Side B"}

\* the billboards a contract may name; IdOwner is not in the inventory
BillboardRefs == {BoardStatic, BoardLed, IdOwner}

Contracts ==
    [id : ContractIds, billboardId : BillboardRefs, side : Sides, details : DetailTexts]

\* the tests of addContract and deleteContract on the contract's side
TouchesSideA(c) == c.side = "A" \/ "Side A" \in c.details \/ c.side = "Both"
TouchesSideB(c) == c.side = "B" \/ "Side B" \in c.details \/ c.side = "Both"

\* the billboard after addContract's branch on its type
BoardAfterAdd(b, c) ==
    IF b.type = "Static"
    THEN [b EXCEPT !.sideAStatus = IF TouchesSideA(c) THEN "Rented" ELSE @,
                   !.sideBStatus = IF TouchesSideB(c) THEN "Rented" ELSE @]
    ELSE [b EXCEPT !.rentedSlots = @ + 1]

\* the billboard after deleteContract's branch on its type
BoardAfterDelete(b, c) ==
    IF b.type = "Static"
    THEN [b EXCEPT !.sideAStatus = IF TouchesSideA(c) THEN "Available" ELSE @,
                   !.sideBStatus = IF TouchesSideB(c) THEN "Available" ELSE @]
    ELSE [b EXCEPT !.rentedSlots = IF @ - 1 > 0 THEN @ - 1 ELSE 0]

\* updateBillboard(billboard): the array is mapped, saved and the record upserted
UpdateBillboard(id, o) ==
    /\ cache' = [cache EXCEPT !["billboards"] =
                    [i \in DOMAIN @ |-> IF @[i].id = id THEN Rec(id, 1) ELSE @[i]]]
    /\ stored' = [stored EXCEPT !["billboards"] = SaveToStorage(@, cache'["billboards"], o)]

InitContracts ==
    /\ cache = [t \in Tables |-> IF t = "billboards"
                                 THEN <<Rec(BoardStatic, 0), Rec(BoardLed, 0)>>
                                 ELSE <<>>]
    /\ stored = [t \in Tables |-> Stringify(cache[t])]
    /\ deletedQueue = <<>>
    /\ storedQueue = <<>>
    /\ restoreStr = <<>>
    /\ remote = cache
    /\ delCalls = {}
    /\ upCalls = {}
    /\ runs = [r \in RunIds |-> IdleRun]
    /\ now = Base
    /\ opsLeft = MaxContractOps
    /\ syncsLeft = 0
    /\ last = NoLast
    /\ listeners = <<>>
    /\ calls = <<>>
    /\ thrown = FALSE
    /\ pull = IdlePull
    /\ events = {}
    /\ aux = {}
    /\ contracts = <<>>
    /\ boards = [b \in {BoardStatic, BoardLed} |->
                    [type |-> IF b = BoardStatic THEN "Static" ELSE "LED",
                     sideAStatus |-> "Available", sideBStatus |-> "Available",
                     rentedSlots |-> 0]]
    /\ getters = {}

\* addContract(contract), called with an id the contracts array does not show
AddContract(c, o) ==
    /\ opsLeft > 0
    /\ ~HasId(contracts, c.id)
    /\ opsLeft' = opsLeft - 1
    /\ contracts' = Append(contracts, c)
    /\ IF c.billboardId \in DOMAIN boards
       THEN /\ boards' = [boards EXCEPT ![c.billboardId] = BoardAfterAdd(@, c)]
            /\ UpdateBillboard(c.billboardId, o)
            /\ upCalls' = upCalls \cup {[table |-> "contracts", rec |-> Rec(c.id, 0)],
                                        [table |-> "billboards",
                                         rec |-> Rec(c.billboardId, 1)]}
       ELSE /\ upCalls' = upCalls \cup {[table |-> "contracts", rec |-> Rec(c.id, 0)]}
            /\ UNCHANGED <<boards, cache, stored>>
    /\ NotifyListenersAfter(SaveThrows(o))
    /\ last' = [NoLast EXCEPT !.kind = "add_contract", !.id = c.id]
    /\ UNCHANGED <<syncsLeft, deletedQueue, storedQueue, restoreStr, remote, delCalls,
                   runs, now, pull, events, aux, getters>>

\* deleteContract(id): nothing happens when no contract has the id
DeleteContract(id, o, oq) ==
    /\ opsLeft > 0
    /\ HasId(contracts, id)
    /\ opsLeft' = opsLeft - 1
    /\ LET c == contracts[CHOOSE i \in DOMAIN contracts :
                             /\ contracts[i].id = id
                             /\ \A j \in DOMAIN contracts :
                                    contracts[j].id = id => i <= j]
       IN  /\ contracts' = FilterOut(contracts, id)
           /\ deletedQueue' = QueueForDeletion(deletedQueue, "contracts", id, now)
           /\ storedQueue' = IF ~InQueue(deletedQueue, "contracts", id)
                             THEN SaveQueue(storedQueue, deletedQueue', oq)
                             ELSE storedQueue
           /\ delCalls' = delCalls \cup {[table |-> "contracts", id |-> id, cont |-> TRUE]}
           /\ IF c.billboardId \in DOMAIN boards
              THEN /\ boards' = [boards EXCEPT ![c.billboardId] = BoardAfterDelete(@, c)]
                   /\ UpdateBillboard(c.billboardId, o)
                   /\ upCalls' = upCalls \cup {[table |-> "billboards",
                                                rec |-> Rec(c.billboardId, 1)]}
              ELSE UNCHANGED <<boards, cache, stored, upCalls>>
    /\ NotifyListenersAfter(SaveThrows(o)
                               \/ (~InQueue(deletedQueue, "contracts", id) /\ SaveThrows(oq)))
    /\ last' = [NoLast EXCEPT !.kind = "delete_contract", !.id = id]
    /\ UNCHANGED <<syncsLeft, restoreStr, remote, runs, now, pull, events, aux, getters>>

NextContracts ==
    \/ \E c \in Contracts, o \in Outcomes : AddContract(c, o)
    \/ \E id \in ContractIds, o \in Outcomes, oq \in Outcomes : DeleteContract(id, o, oq)

SpecContracts == InitContracts /\ [][NextContracts]_vars

\* the contracts in the local cache that reference billboard b
ContractsOf(b) == {i \in DOMAIN contracts : contracts[i].billboardId = b}

\* C24, Static billboards: a side is 'Rented' exactly when some contract in
\* the local cache covers it, and 'Available' otherwise
StaticFollowsContracts ==
    \A b \in DOMAIN boards :
        boards[b].type = "Static" =>
            /\ boards[b].sideAStatus =
                  IF \E i \in ContractsOf(b) : TouchesSideA(contracts[i])
                  THEN "Rented" ELSE "Available"
            /\ boards[b].sideBStatus =
                  IF \E i \in ContractsOf(b) : TouchesSideB(contracts[i])
                  THEN "Rented" ELSE "Available"

\* C24, LED billboards: rentedSlots is the number of contracts in the local
\* cache that reference the billboard, and is never negative
LedFollowsContracts ==
    \A b \in DOMAIN boards :
        boards[b].type = "LED" =>
            /\ boards[b].rentedSlots = Cardinality(ContractsOf(b))
            /\ boards[b].rentedSlots >= 0

\* C24: after any sequence of addContract and deleteContract the rental
\* fields of every billboard follow the contracts in the local cache (sides of
\* a Static billboard, rentedSlots of an LED billboard)
C24_StatusFollowsContracts ==
    StaticFollowsContracts /\ LedFollowsContracts

(***************************************************************************)
(* Local adds and deletes while a reconciliation pass is awaiting its      *)
(* fetch: one triggerFullSync over collections whose local and remote      *)
(* rows differ, with addX and deleteX calls and the settling of their      *)
(* remote calls interleaved at every await.                                *)
(***************************************************************************)
InitInFlight ==
    /\ \E t0 \in Tables :
         /\ cache \in {[t \in Tables |-> IF t = t0 THEN a ELSE <<>>] :
                          a \in Arrays(MainIds, 0, 1)}
         /\ remote \in {[t \in Tables |-> IF t = t0 THEN a ELSE <<>>] :
                          a \in Arrays(MainIds, 1, 1)}
    /\ stored = [t \in Tables |-> Stringify(cache[t])]
    /\ deletedQueue = <<>>
    /\ storedQueue = <<>>
    /\ restoreStr = <<>>
    /\ delCalls = {}
    /\ upCalls = {}
    /\ runs = [r \in RunIds |-> IdleRun]
    /\ now = Base
    /\ opsLeft = MaxOps
    /\ syncsLeft = MaxSyncs
    /\ last = NoLast
    /\ listeners = <<>>
    /\ calls = <<>>
    /\ thrown = FALSE
    /\ pull = [IdlePull EXCEPT !.left = 0]
    /\ events = {}
    /\ aux = {}
    /\ contracts = <<>>
    /\ boards = <<>>
    /\ getters = {}

NextInFlight ==
    \/ \E r \in RunIds : TriggerFullSync(r)
    \/ \E r \in RunIds, ok \in Bools : FlushStep(r, ok, "ok")
    \/ \E r \in RunIds, t \in Tables, ok \in Bools : RemoteSelect(r, t, ok)
    \/ \E r \in RunIds, t \in Tables : PassApply(r, t, "ok")
    \/ \E r \in RunIds : RunFinish(r)
    \/ \E c \in upCalls, ok \in Bools : UpsertSettles(c, ok)
    \/ \E c \in delCalls, ok \in Bools : DeleteSettles(c, ok, "ok")
    \/ \E t \in Tables, id \in MainIds : AddRecord(t, id, "ok")
    \/ \E t \in Tables, id \in MainIds : DeleteRecord(t, id, "ok", "ok")

SpecInFlight == InitInFlight /\ [][NextInFlight]_vars

\* C25: a record the cache shows when the pass resumes and that was not in
\* the rows the pass was given (it was added by addX while the fetch was
\* awaited, and not deleted since) is in the cache after the pass
C25_AddedDuringFetchKept ==
    [][last'.kind = "pass" =>
          \A id \in IdsOf(cache[last'.t]) \ IdsOf(last'.localData) :
              HasId(cache'[last'.t], id)]_vars

\* C26: a record that was in the rows the pass was given and that the cache no
\* longer shows when the pass resumes (it was deleted by deleteX while the
\* fetch was awaited) is neither put back into the cache nor upserted by the pass
C26_DeletedDuringFetchStaysDeleted ==
    [][last'.kind = "pass" =>
          \A id \in IdsOf(last'.localData) \ IdsOf(cache[last'.t]) :
              /\ ~HasId(cache'[last'.t], id)
              /\ id \notin IdsOf(last'.upserts)]_vars

(***************************************************************************)
(* The async getters (getBillboardsAsync and siblings): the select of      *)
(* fetchFromSupabase is awaited with the array of the moment of the call   *)
(* as fallback, and the setter runs when the answer is back.  There is no  *)
(* getter for the users collection.                                        *)
(***************************************************************************)
GetterTables == {"billboards"}

\* getBillboardsAsync is called: fetchFromSupabase('billboards', billboards)
GetterStart(t) ==
    /\ opsLeft > 0
    /\ opsLeft' = opsLeft - 1
    /\ \A g \in getters : g.table # t
    /\ getters' = getters \cup {[table |-> t, fallback |-> cache[t],
                                 st |-> "fetching", data |-> <<>>]}
    /\ last' = NoLast
    /\ UNCHANGED <<cache, stored, deletedQueue, storedQueue, restoreStr, remote,
                   delCalls, upCalls, runs, now, syncsLeft, notifyVars,
                   pull, events, aux, contracts, boards>>

\* the select settles: the rows of the table, or the fallback on an error
GetterFetch(g, ok) ==
    /\ g \in getters
    /\ g.st = "fetching"
    /\ getters' = (getters \ {g}) \cup
                  {[g EXCEPT !.st = "fetched",
                             !.data = IF ok THEN remote[g.table] ELSE g.fallback]}
    /\ last' = NoLast
    /\ UNCHANGED <<cache, stored, deletedQueue, storedQueue, restoreStr, remote,
                   delCalls, upCalls, runs, now, opsLeft, syncsLeft, notifyVars,
                   pull, events, aux, contracts, boards>>

\* the getter resumes: "if (data.length > 0) { billboards = data; saveToStorage }"
GetterSet(g, o) ==
    /\ g \in getters
    /\ g.st = "fetched"
    /\ getters' = getters \ {g}
    /\ cache' = IF Len(g.data) > 0 THEN [cache EXCEPT ![g.table] = g.data] ELSE cache
    /\ stored' = IF Len(g.data) > 0
                 THEN [stored EXCEPT ![g.table] = SaveToStorage(@, g.data, o)]
                 ELSE stored
    /\ thrown' = SaveThrows(o)
    /\ last' = [NoLast EXCEPT !.kind = "getter", !.t = g.table, !.data = g.data]
    /\ UNCHANGED <<deletedQueue, storedQueue, restoreStr, remote, delCalls, upCalls,
                   runs, now, opsLeft, syncsLeft, listeners, calls,
                   pull, events, aux, contracts, boards>>

(***************************************************************************)
(* A specification for the deletion queue against the cache: a record that *)
(* is cached and held by the remote store is deleted, and a reconciliation *)
(* run, a wholesale pull, an async getter, a restore or a write of another *)
(* tab follows.  No record is added by addX.                               *)
(***************************************************************************)
InitQueue ==
    /\ cache = [t \in Tables |-> IF t \in GetterTables THEN <<Rec(IdA, 1)>> ELSE <<>>]
    /\ remote = cache
    /\ stored = [t \in Tables |-> Stringify(cache[t])]
    /\ deletedQueue = <<>>
    /\ storedQueue = <<>>
    /\ restoreStr = <<>>
    /\ delCalls = {}
    /\ upCalls = {}
    /\ runs = [r \in RunIds |-> IdleRun]
    /\ now = Base
    /\ opsLeft = MaxOps
    /\ last = NoLast
    /\ listeners = <<>>
    /\ calls = <<>>
    /\ thrown = FALSE
    /\ \E sync \in Bools :
         /\ syncsLeft = IF sync THEN MaxSyncs ELSE 0
         /\ pull = [IdlePull EXCEPT !.left = IF sync THEN 0 ELSE MaxPulls]
    /\ events = {}
    /\ aux = {}
    /\ contracts = <<>>
    /\ boards = <<>>
    /\ getters = {}

NextQueue ==
    \/ \E r \in RunIds : TriggerFullSync(r)
    \/ \E r \in RunIds, ok \in Bools : FlushStep(r, ok, "ok")
    \/ \E r \in RunIds, t \in Tables, ok \in Bools : RemoteSelect(r, t, ok)
    \/ \E r \in RunIds, t \in Tables : PassApply(r, t, "ok")
    \/ \E r \in RunIds : RunFinish(r)
    \/ \E c \in upCalls, ok \in Bools : UpsertSettles(c, ok)
    \/ \E c \in delCalls, ok \in Bools : DeleteSettles(c, ok, "ok")
    \/ \E t \in Tables : DeleteRecord(t, IdA, "ok", "ok")
    \/ \E b \in Backups : RestoreSystemBackup(b, [t \in Tables |-> "ok"])
    \/ PullStart
    \/ \E ok \in Bools : PullFetch(ok)
    \/ PullSet("ok")
    \/ PullFinish
    \/ \E t \in GetterTables : GetterStart(t)
    \/ \E g \in getters, ok \in Bools : GetterFetch(g, ok)
    \/ \E g \in getters : GetterSet(g, "ok")
    \/ \E t \in Tables : OtherTabSave(t, <<Rec(IdA, 1)>>)
    \/ \E k \in Tables : StorageEvent(k)

SpecQueue == InitQueue /\ [][NextQueue]_vars

\* C27: in every reachable state no id that is in the deletion queue for a
\* collection is present in that collection's local cache
C27_QueuedIdsNotCached ==
    \A i \in DOMAIN deletedQueue :
        deletedQueue[i].table \in Tables =>
            ~HasId(cache[deletedQueue[i].table], deletedQueue[i].id)

(***************************************************************************)
(* Arrival orders at the remote store: the upserts of addX / updateX and   *)
(* of a reconciliation pass and the delete of deleteX are in flight        *)
(* together and settle in any order.  The one id used is a static id,      *)
(* which no pass drops as stale, so a record leaves the cache only by      *)
(* deleteX, and an id that is in neither the cache nor the queue has       *)
(* either never existed or had its delete confirmed.                       *)
(***************************************************************************)
ArrivalIds == {IdA}

InitArrival ==
    /\ cache = [t \in Tables |-> <<>>]
    /\ stored = [t \in Tables |-> <<>>]
    /\ remote = [t \in Tables |-> <<>>]
    /\ deletedQueue = <<>>
    /\ storedQueue = <<>>
    /\ restoreStr = <<>>
    /\ delCalls = {}
    /\ upCalls = {}
    /\ runs = [r \in RunIds |-> IdleRun]
    /\ now = Base
    /\ opsLeft = MaxOps + 1
    /\ syncsLeft = MaxSyncs
    /\ last = NoLast
    /\ listeners = <<>>
    /\ calls = <<>>
    /\ thrown = FALSE
    /\ pull = [IdlePull EXCEPT !.left = 0]
    /\ events = {}
    /\ aux = {}
    /\ contracts = <<>>
    /\ boards = <<>>
    /\ getters = {}

NextArrival ==
    \/ \E r \in RunIds : TriggerFullSync(r)
    \/ \E r \in RunIds, ok \in Bools : FlushStep(r, ok, "ok")
    \/ \E r \in RunIds, t \in Tables, ok \in Bools : RemoteSelect(r, t, ok)
    \/ \E r \in RunIds, t \in Tables : PassApply(r, t, "ok")
    \/ \E r \in RunIds : RunFinish(r)
    \/ \E c \in upCalls, ok \in Bools : UpsertSettles(c, ok)
    \/ \E c \in delCalls, ok \in Bools : DeleteSettles(c, ok, "ok")
    \/ \E t \in Tables, id \in ArrivalIds : AddRecord(t, id, "ok")
    \/ \E t \in Tables, id \in ArrivalIds : UpdateRecord(t, id, "ok")
    \/ \E t \in Tables, id \in ArrivalIds : DeleteRecord(t, id, "ok", "ok")

SpecArrival == InitArrival /\ [][NextArrival]_vars

\* the id is in neither the cache, the deletion queue nor the remote table
GoneEverywhere(t, id) ==
    /\ ~HasId(cache[t], id)
    /\ ~InQueue(deletedQueue, t, id)
    /\ ~HasId(remote[t], id)

\* C28: once the queue entry for (C, id) has been removed on remote
\* confirmation (the id is then in neither the cache, the queue nor the remote
\* table), no step puts the id into the remote table or the cache again,
\* except an addX of that id, whatever order the calls issued earlier settle in
C28_ConfirmedDeleteIsFinal ==
    [][\A t \in Tables, id \in ArrivalIds :
          GoneEverywhere(t, id) =>
              \/ ~HasId(cache'[t], id) /\ ~HasId(remote'[t], id)
              \/ last'.kind = "add" /\ last'.t = t /\ last'.id = id]_vars

(***************************************************************************)
(* A restore over a pending deletion: a record held locally and remotely   *)
(* may be deleted before the restore, whose backup holds it in a newer     *)
(* version; the one restore runs when the remote delete has settled, and   *)
(* triggerFullSync is called once the upserts of the restore have settled, *)
(* within the five minutes (the clock does not advance).  The backup names *)
(* every collection, so every record cached after the restore is a         *)
(* restored one.                                                           *)
(***************************************************************************)
InitRestore ==
    /\ \E t0 \in Tables :
         /\ cache = [t \in Tables |-> IF t = t0 THEN <<Rec(IdA, 0)>> ELSE <<>>]
         /\ remote = cache
    /\ stored = [t \in Tables |-> Stringify(cache[t])]
    /\ deletedQueue = <<>>
    /\ storedQueue = <<>>
    /\ restoreStr = <<>>
    /\ delCalls = {}
    /\ upCalls = {}
    /\ runs = [r \in RunIds |-> IdleRun]
    /\ now = Base
    /\ opsLeft = MaxOps
    /\ syncsLeft = MaxSyncs + 1
    /\ last = NoLast
    /\ listeners = <<>>
    /\ calls = <<>>
    /\ thrown = FALSE
    /\ pull = [IdlePull EXCEPT !.left = 0]
    /\ events = {}
    /\ aux = {}
    /\ contracts = <<>>
    /\ boards = <<>>
    /\ getters = {}

NextRestore ==
    \/ \E r \in RunIds : upCalls = {} /\ restoreStr # <<>> /\ TriggerFullSync(r)
    \/ \E r \in RunIds, ok \in Bools : FlushStep(r, ok, "ok")
    \/ \E r \in RunIds, t \in Tables, ok \in Bools : RemoteSelect(r, t, ok)
    \/ \E r \in RunIds, t \in Tables : PassApply(r, t, "ok")
    \/ \E r \in RunIds : RunFinish(r)
    \/ \E c \in upCalls, ok \in Bools : UpsertSettles(c, ok)
    \/ \E c \in delCalls, ok \in Bools : DeleteSettles(c, ok, "ok")
    \/ \E t \in Tables : restoreStr = <<>> /\ DeleteRecord(t, IdA, "ok", "ok")
    \/ \E b \in {bk \in Backups : bk.present = Tables} :
          /\ delCalls = {}
          /\ restoreStr = <<>>
          /\ RestoreSystemBackup(b, [t \in Tables |-> "ok"])

SpecRestore == InitRestore /\ [][NextRestore]_vars

\* C29: while the restore is less than five minutes old, no step takes the id
\* of a restored record out of its collection's cache or out of the remote
\* table (the backup names every collection, and nothing is deleted by the
\* user after the restore)
C29_RestoredRecordsStay ==
    [][IsRecentRestore(restoreStr, now) =>
          \A t \in Tables :
              /\ HasId(cache[t], IdA) => HasId(cache'[t], IdA)
              /\ HasId(remote[t], IdA) => HasId(remote'[t], IdA)]_vars

\* C30: when pullAllDataFromSupabase has set supabaseSyncComplete (and
\* returned true), the fetch of every collection succeeded during that pull
\* and every collection's cache was replaced by the snapshot fetched; the
\* flag is not set when a collection's fetch failed
C30_SyncedOnlyAfterCompletePull ==
    (last.kind = "pull_end" /\ pull.synced) =>
        \A t \in Tables : last.got[t] = "ok" /\ cache[t] = last.snaps[t]

====
